---- MODULE Spec2Model ----
(***************************************************************************)
(* Model of the two analytics adapters of wxhbts/monitor:                  *)
(*   cdn : src/unnamed/part_000               (GraphQL CDN analytics)      *)
(*   esa : src/node-functions/esa/[[default]].js  (signed REST edge API)   *)
(* Each adapter exposes GET /traffic.  A request runs from the handler's   *)
(* entry to its first await, and is resumed by the outcome of the upstream *)
(* call it awaits.                                                         *)
(*                                                                         *)
(* JavaScript strings that the code slices or parses (time bounds, time    *)
(* dimensions) are tuples of one-character strings.  Instants are epoch    *)
(* milliseconds as in the code; the clock and the time bounds are taken in *)
(* January 1970 so that every millisecond count stays inside TLC's 32-bit  *)
(* integers.                                                               *)
(***************************************************************************)
EXTENDS Integers, Sequences, FiniteSets, TLC

\* ------------------------------------------------------------------------
\* Bounds of the model
\* ------------------------------------------------------------------------
MaxRows == 2
MaxZones == 2

\* ------------------------------------------------------------------------
\* JavaScript values
\* ------------------------------------------------------------------------
\* The number NaN (Date.parse of an unparsable string, arithmetic on
\* undefined) is an integer outside the range of every real value here.
NaN == -2147483647

IsNaN(x) == x = NaN

JsAdd(a, b) == IF IsNaN(a) \/ IsNaN(b) THEN NaN ELSE a + b

JsSub(a, b) == IF IsNaN(a) \/ IsNaN(b) THEN NaN ELSE a - b

\* a > b : false as soon as one side is NaN
JsGt(a, b) == ~IsNaN(a) /\ ~IsNaN(b) /\ a > b

\* x || 0 on numbers
OrZero(x) == IF IsNaN(x) THEN 0 ELSE x

\* s.slice(0, n)
Slice0(s, n) == SubSeq(s, 1, IF Len(s) < n THEN Len(s) ELSE n)

\* a || b on strings: the empty string and undefined are both falsy; an
\* absent query parameter is the empty tuple.
OrStr(a, b) == IF a = <<>> THEN b ELSE a

DigitChars == <<"0", "1", "2", "3", "4", "5", "6", "7", "8", "9">>

IsDigit(c) == \E i \in 1..10 : DigitChars[i] = c

DigitVal(c) == (CHOOSE i \in 1..10 : DigitChars[i] = c) - 1

AllDigits(s, i, j) == \A k \in i..j : IsDigit(s[k])

RECURSIVE NumAt(_, _, _)
\* the decimal number written at s[i..j]
NumAt(s, i, j) ==
    IF j < i THEN 0 ELSE NumAt(s, i, j - 1) * 10 + DigitVal(s[j])

\* n written with two, three and four digits
Pad2(n) == <<DigitChars[((n \div 10) % 10) + 1], DigitChars[(n % 10) + 1]>>

Pad3(n) == <<DigitChars[((n \div 100) % 10) + 1]>> \o Pad2(n)

Pad4(n) == <<DigitChars[((n \div 1000) % 10) + 1]>> \o Pad3(n)

\* Days since 1970-01-01 of a proleptic Gregorian date, and back.
DaysFromCivil(y, m, d) ==
    LET yy  == IF m <= 2 THEN y - 1 ELSE y
        era == yy \div 400
        yoe == yy - era * 400
        mp  == IF m > 2 THEN m - 3 ELSE m + 9
        doy == (153 * mp + 2) \div 5 + d - 1
        doe == yoe * 365 + yoe \div 4 - yoe \div 100 + doy
    IN  era * 146097 + doe - 719468

CivilFromDays(days) ==
    LET z   == days + 719468
        era == z \div 146097
        doe == z - era * 146097
        yoe == (doe - doe \div 1460 + doe \div 36524 - doe \div 146096) \div 365
        doy == doe - (365 * yoe + yoe \div 4 - yoe \div 100)
        mp  == (5 * doy + 2) \div 153
        d   == doy - (153 * mp + 2) \div 5 + 1
        m   == IF mp < 10 THEN mp + 3 ELSE mp - 9
        y   == yoe + era * 400 + (IF m <= 2 THEN 1 ELSE 0)
    IN  [y |-> y, m |-> m, d |-> d]

MsPerDay == 86400000

\* YYYY-MM-DD at s[1..10]
IsoDateOk(s) ==
    /\ Len(s) >= 10
    /\ AllDigits(s, 1, 4) /\ s[5] = "-" /\ AllDigits(s, 6, 7)
    /\ s[8] = "-" /\ AllDigits(s, 9, 10)
    /\ NumAt(s, 6, 7) \in 1..12
    /\ NumAt(s, 9, 10) \in 1..31

\* THH:MM:SS at s[11..19]
IsoTimeOk(s) ==
    /\ Len(s) >= 19
    /\ s[11] = "T" /\ AllDigits(s, 12, 13) /\ s[14] = ":"
    /\ AllDigits(s, 15, 16) /\ s[17] = ":" /\ AllDigits(s, 18, 19)
    /\ NumAt(s, 12, 13) \in 0..23
    /\ NumAt(s, 15, 16) \in 0..59
    /\ NumAt(s, 18, 19) \in 0..59

IsoDateMs(s) ==
    DaysFromCivil(NumAt(s, 1, 4), NumAt(s, 6, 7), NumAt(s, 9, 10)) * MsPerDay

IsoTimeMs(s) ==
    (NumAt(s, 12, 13) * 3600 + NumAt(s, 15, 16) * 60 + NumAt(s, 18, 19)) * 1000

\* Date.parse(s) / new Date(s).getTime() on the ISO-8601 forms
\*   YYYY-MM-DD, YYYY-MM-DDTHH:MM:SSZ, YYYY-MM-DDTHH:MM:SS.mmmZ
\* (all UTC); any other string is unparsable and gives NaN.
DateParse(s) ==
    IF Len(s) = 10 /\ IsoDateOk(s) THEN IsoDateMs(s)
    ELSE IF Len(s) = 20 /\ IsoDateOk(s) /\ IsoTimeOk(s) /\ s[20] = "Z"
         THEN IsoDateMs(s) + IsoTimeMs(s)
    ELSE IF /\ Len(s) = 24 /\ IsoDateOk(s) /\ IsoTimeOk(s)
            /\ s[20] = "." /\ AllDigits(s, 21, 23) /\ s[24] = "Z"
         THEN IsoDateMs(s) + IsoTimeMs(s) + NumAt(s, 21, 23)
    ELSE NaN

\* new Date(t).toISOString() for a valid instant t (epoch milliseconds):
\* YYYY-MM-DDTHH:MM:SS.mmmZ
toISOString(t) ==
    LET c   == CivilFromDays(t \div MsPerDay)
        ms  == t % MsPerDay
        sec == ms \div 1000
    IN  Pad4(c.y) \o <<"-">> \o Pad2(c.m) \o <<"-">> \o Pad2(c.d) \o <<"T">>
        \o Pad2(sec \div 3600) \o <<":">> \o Pad2((sec \div 60) % 60)
        \o <<":">> \o Pad2(sec % 60) \o <<".">> \o Pad3(ms % 1000) \o <<"Z">>


\* ------------------------------------------------------------------------
\* Metric registries
\* ------------------------------------------------------------------------
\* cdn: METRIC_MAP (a const object the code never writes)
METRIC_MAP ==
    [ l7Flow_flux |-> [name |-> "l7Flow_flux", sumid |-> "bytes", scope |-> "account"],
      l7Flow_outFlux |-> [name |-> "l7Flow_outFlux", sumid |-> "cachedBytes", scope |-> "account"],
      l7Flow_request |-> [name |-> "l7Flow_request", sumid |-> "requests", scope |-> "account"],
      l7Flow_inFlux |-> [name |-> "l7Flow_inFlux", sumid |-> "pageViews", scope |-> "account"],
      l7Flow_outcc |-> [name |-> "l7Flow_outcc", sumid |-> "threats", scope |-> "account"],
      l7Flow_cachedRequests |->
          [name |-> "l7Flow_cachedRequests", sumid |-> "cachedRequests", scope |-> "account"],
      l7Flow_outFlux_resourceType |->
          [name |-> "l7Flow_outFlux_resourceType", sumid |-> "bytes", scope |-> "account",
           isDistribution |-> TRUE, dimension |-> "edgeResponseContentTypeName"],
      l7Flow_request_resourceType |->
          [name |-> "l7Flow_request_resourceType", sumid |-> "requests", scope |-> "account",
           isDistribution |-> TRUE, dimension |-> "edgeResponseContentTypeName"],
      l7Flow_outFlux_country |->
          [name |-> "l7Flow_outFlux_country", sumid |-> "bytes", scope |-> "account",
           isDistribution |-> TRUE, dimension |-> "clientCountryName"],
      l7Flow_request_country |->
          [name |-> "l7Flow_request_country", sumid |-> "requests", scope |-> "account",
           isDistribution |-> TRUE, dimension |-> "clientCountryName"],
      function_requestCount |->
          [name |-> "function_requestCount", sumid |-> "requests", scope |-> "account"],
      function_cpuCostTime |->
          [name |-> "function_cpuCostTime", sumid |-> "cpuTimeUs", scope |-> "account"],
      l7Flow_outFlux_domain |->
          [name |-> "l7Flow_outFlux_domain", sumid |-> "bytes", scope |-> "zone"],
      l7Flow_request_domain |->
          [name |-> "l7Flow_request_domain", sumid |-> "requests", scope |-> "zone"] ]

\* ZONE_TOPN_CONFIG without its l7Flow_request_sip entry
ZONE_TOPN_CONFIG_NoSip ==
    [ l7Flow_request_ua_device |-> "clientRequestHTTPMethodName",
      l7Flow_request_ua_browser |-> "cacheStatus",
      l7Flow_request_zym |-> "clientRequestHTTPHost" ]

\* cdn: ZONE_TOPN_CONFIG, metric key -> field the ad-hoc query groups by
ZONE_TOPN_CONFIG ==
    [ l7Flow_request_sip |-> "clientIP",
      l7Flow_request_ua_device |-> "clientRequestHTTPMethodName",
      l7Flow_request_ua_browser |-> "cacheStatus",
      l7Flow_request_zym |-> "clientRequestHTTPHost" ]

\* esa: the METRIC_CONFIG literal, before the load-time default-fill
METRIC_CONFIG_LITERAL ==
    [ l7Flow_flux |-> [action |-> "DescribeSiteTimeSeriesData", field |-> "Traffic",
                       dimension |-> "ALL", type |-> "TS"],
      l7Flow_inFlux |-> [action |-> "DescribeSiteTimeSeriesData", field |-> "RequestTraffic",
                         dimension |-> "ALL", type |-> "TS"],
      l7Flow_outFlux |-> [action |-> "DescribeSiteTimeSeriesData", field |-> "Traffic",
                          dimension |-> "ALL", type |-> "TS"],
      l7Flow_request |-> [action |-> "DescribeSiteTimeSeriesData", field |-> "Requests",
                          dimension |-> "ALL", type |-> "TS"],
      l7Flow_request_country |-> [field |-> "Requests", dimension |-> "ClientCountryCode"],
      l7Flow_outFlux_country |-> [field |-> "Traffic", dimension |-> "ClientCountryCode"],
      l7Flow_outFlux_province |-> [field |-> "Traffic", dimension |-> "ClientProvinceCode"],
      l7Flow_request_province |-> [field |-> "Requests", dimension |-> "ClientProvinceCode"],
      l7Flow_outFlux_statusCode |-> [field |-> "Traffic", dimension |-> "EdgeResponseStatusCode"],
      l7Flow_request_statusCode |-> [field |-> "Requests", dimension |-> "EdgeResponseStatusCode"],
      l7Flow_outFlux_domain |-> [field |-> "Traffic", dimension |-> "ClientRequestHost"],
      l7Flow_request_domain |-> [field |-> "Requests", dimension |-> "ClientRequestHost"],
      l7Flow_outFlux_url |-> [field |-> "Traffic", dimension |-> "ClientRequestPath"],
      l7Flow_request_url |-> [field |-> "Requests", dimension |-> "ClientRequestPath"],
      l7Flow_outFlux_resourceType |-> [field |-> "Traffic", dimension |-> "EdgeResponseContentType"],
      l7Flow_request_resourceType |-> [field |-> "Requests", dimension |-> "EdgeResponseContentType"],
      l7Flow_outFlux_sip |-> [field |-> "Traffic", dimension |-> "ClientIP"],
      l7Flow_request_sip |-> [field |-> "Requests", dimension |-> "ClientIP"],
      l7Flow_outFlux_referers |-> [field |-> "Traffic", dimension |-> "ClientRequestReferer"],
      l7Flow_request_referers |-> [field |-> "Requests", dimension |-> "ClientRequestReferer"],
      l7Flow_outFlux_ua_os |-> [field |-> "Traffic", dimension |-> "ClientOS"],
      l7Flow_request_ua_os |-> [field |-> "Requests", dimension |-> "ClientOS"],
      l7Flow_outFlux_ua |-> [field |-> "Traffic", dimension |-> "ClientRequestUserAgent"],
      l7Flow_request_ua |-> [field |-> "Requests", dimension |-> "ClientRequestUserAgent"],
      l7Flow_outFlux_ua_device |-> [field |-> "Traffic", dimension |-> "ClientRequestMethod"],
      l7Flow_request_ua_device |-> [field |-> "Requests", dimension |-> "ClientRequestMethod"],
      l7Flow_outFlux_ua_browser |-> [field |-> "Traffic", dimension |-> "EdgeCacheStatus"],
      l7Flow_request_ua_browser |-> [field |-> "Requests", dimension |-> "EdgeCacheStatus"],
      l7Flow_outFlux_urlquery |-> [field |-> "Traffic", dimension |-> "ClientRequestQuery"],
      l7Flow_url_res_query |-> [field |-> "Requests", dimension |-> "ClientRequestQuery"] ]

\* o.f is present
Has(o, f) == f \in DOMAIN o

\* FillEntry with the type assignment outside the if: every entry becomes TOP
FillEntry_TypeAlways(e) ==
    IF ~("action" \in DOMAIN e)
    THEN [field |-> e.field, dimension |-> e.dimension,
          action |-> "DescribeSiteTopData", type |-> "TOP"]
    ELSE [e EXCEPT !.type = "TOP"]

\* esa: one entry of the default-fill: an entry without an action becomes a
\* DescribeSiteTopData entry of type TOP
FillEntry(e) ==
    IF ~Has(e, "action")
    THEN [field |-> e.field, dimension |-> e.dimension,
          action |-> "DescribeSiteTopData", type |-> "TOP"]
    ELSE e

\* esa: Object.keys(METRIC_CONFIG).forEach(...) at module load
DefaultFill(cfg) == [k \in DOMAIN cfg |-> FillEntry(cfg[k])]

\* The function-valued members every object literal inherits from
\* Object.prototype, with the `name` property of each function.  obj[key]
\* finds them when key is no own property of obj.
ObjectPrototype ==
    [ constructor |-> [name |-> "Object"],
      toString |-> [name |-> "toString"],
      toLocaleString |-> [name |-> "toLocaleString"],
      valueOf |-> [name |-> "valueOf"],
      hasOwnProperty |-> [name |-> "hasOwnProperty"],
      isPrototypeOf |-> [name |-> "isPrototypeOf"],
      propertyIsEnumerable |-> [name |-> "propertyIsEnumerable"] ]

\* obj[key] is truthy: every own value of the registries is a non-empty
\* string or an object, every inherited member is a function.
Truthy(obj, key) == key \in DOMAIN obj \/ key \in DOMAIN ObjectPrototype

\* obj[key], for a key with Truthy(obj, key)
Lookup(obj, key) == IF key \in DOMAIN obj THEN obj[key] ELSE ObjectPrototype[key]

\* ------------------------------------------------------------------------
\* cdn: getTimeConfig
\* ------------------------------------------------------------------------
getTimeConfig(reqStartTime, reqEndTime, now) ==
    LET yesterday == now - 24 * 60 * 60 * 1000
        start == OrStr(reqStartTime, toISOString(yesterday))
        end == OrStr(reqEndTime, toISOString(now))
        fromTime == DateParse(start)
        isLongTerm == JsGt(JsSub(now, fromTime), 3 * 24 * 60 * 60 * 1000)
    IN  IF isLongTerm
        THEN [start |-> start, end |-> end,
              queryFrom |-> Slice0(start, 10), queryTo |-> Slice0(end, 10),
              datasetMode |-> "httpRequests1dGroups", orderBy |-> "date_ASC",
              dimensionKey |-> "date", isLongTerm |-> TRUE,
              filterObj |-> [date_geq |-> Slice0(start, 10), date_leq |-> Slice0(end, 10)]]
        ELSE [start |-> start, end |-> end,
              queryFrom |-> start, queryTo |-> end,
              datasetMode |-> "httpRequests1hGroups", orderBy |-> "datetime_ASC",
              dimensionKey |-> "datetime", isLongTerm |-> FALSE,
              filterObj |-> [datetime_geq |-> start, datetime_leq |-> end]]

\* ------------------------------------------------------------------------
\* Response normalisation
\* ------------------------------------------------------------------------
\* An upstream row is [dim |-> d, val |-> v]: d is the value of the
\* dimension the query asked for (item.dimensions[...]), v the value of the
\* summed field (item.sum[...], or group.count on the ad-hoc path).

\* Math.floor(Date.parse(timeValue) / 1000)
EpochSeconds(timeValue) ==
    LET ms == DateParse(timeValue) IN IF IsNaN(ms) THEN NaN ELSE ms \div 1000

RECURSIVE AddToMerged_Overwrite(_, _, _)
\* AddToMerged with merged[ts] = v: a row replaces the rows of its second
AddToMerged_Overwrite(merged, ts, v) ==
    IF merged = <<>> THEN <<[ts |-> ts, value |-> JsAdd(0, v)]>>
    ELSE IF Head(merged).ts = ts
         THEN <<[ts |-> ts, value |-> JsAdd(0, v)]>> \o Tail(merged)
    ELSE <<Head(merged)>> \o AddToMerged_Overwrite(Tail(merged), ts, v)

RECURSIVE AddToMerged(_, _, _)
\* merged[ts] = (merged[ts] || 0) + v, merged being the list of the
\* object's entries [ts, value]
AddToMerged(merged, ts, v) ==
    IF merged = <<>> THEN <<[ts |-> ts, value |-> JsAdd(0, v)]>>
    ELSE IF Head(merged).ts = ts
         THEN <<[ts |-> ts, value |-> JsAdd(OrZero(Head(merged).value), v)]>> \o Tail(merged)
    ELSE <<Head(merged)>> \o AddToMerged(Tail(merged), ts, v)

RECURSIVE MergeRows(_, _)
\* cdn: resultData.forEach(...) filling `merged`
MergeRows(rows, merged) ==
    IF rows = <<>> THEN merged
    ELSE MergeRows(Tail(rows),
                   AddToMerged(merged, EpochSeconds(Head(rows).dim), Head(rows).val))

RECURSIVE InsertAscTs(_, _)
InsertAscTs(sorted, e) ==
    IF sorted = <<>> THEN <<e>>
    ELSE IF IsNaN(JsSub(Head(sorted).ts, e.ts)) \/ JsSub(Head(sorted).ts, e.ts) <= 0
         THEN <<Head(sorted)>> \o InsertAscTs(Tail(sorted), e)
    ELSE <<e>> \o sorted

RECURSIVE SortAscTs(_, _)
\* entries.sort((a, b) => Number(a[0]) - Number(b[0])), a stable sort
SortAscTs(entries, sorted) ==
    IF entries = <<>> THEN sorted
    ELSE SortAscTs(Tail(entries), InsertAscTs(sorted, Head(entries)))

\* cdn: the merged, ascending Detail list of the account time series
MergedDetail(rows) ==
    LET entries == SortAscTs(MergeRows(rows, <<>>), <<>>)
    IN  [i \in 1..Len(entries) |->
            [Timestamp |-> entries[i].ts, Value |-> entries[i].value]]

\* a.localeCompare(b) < 0 on YYYY-MM-DD strings of the same length: the
\* first differing character decides, and "-" sorts before the digits.
CharRank(c) == IF IsDigit(c) THEN DigitVal(c) + 1 ELSE 0

RECURSIVE StrLess(_, _)
StrLess(a, b) ==
    IF a = <<>> \/ b = <<>> THEN a = <<>> /\ b # <<>>
    ELSE IF Head(a) = Head(b) THEN StrLess(Tail(a), Tail(b))
    ELSE CharRank(Head(a)) < CharRank(Head(b))

\* new Date(Timestamp * 1000).toISOString().slice(0, 10)
DayOf(timestamp) == Slice0(toISOString(timestamp * 1000), 10)

RECURSIVE AddToDay(_, _, _)
\* dayMerged[day] = (dayMerged[day] || 0) + item.Value
AddToDay(dayMerged, day, v) ==
    IF dayMerged = <<>> THEN <<[day |-> day, value |-> JsAdd(0, v)]>>
    ELSE IF Head(dayMerged).day = day
         THEN <<[day |-> day, value |-> JsAdd(OrZero(Head(dayMerged).value), v)]>>
              \o Tail(dayMerged)
    ELSE <<Head(dayMerged)>> \o AddToDay(Tail(dayMerged), day, v)

RECURSIVE MergeDays(_, _)
MergeDays(detail, dayMerged) ==
    IF detail = <<>> THEN dayMerged
    ELSE MergeDays(Tail(detail),
                   AddToDay(dayMerged, DayOf(Head(detail).Timestamp), Head(detail).Value))

RECURSIVE InsertAscDay(_, _)
InsertAscDay(sorted, e) ==
    IF sorted = <<>> THEN <<e>>
    ELSE IF ~StrLess(e.day, Head(sorted).day)
         THEN <<Head(sorted)>> \o InsertAscDay(Tail(sorted), e)
    ELSE <<e>> \o sorted

RECURSIVE SortAscDay(_, _)
SortAscDay(entries, sorted) ==
    IF entries = <<>> THEN sorted
    ELSE SortAscDay(Tail(entries), InsertAscDay(sorted, Head(entries)))

\* cdn: hour buckets -> UTC-day buckets
DailyRollup(detail) ==
    LET days == SortAscDay(MergeDays(detail, <<>>), <<>>)
    IN  [i \in 1..Len(days) |->
            [Timestamp |->
                 EpochSeconds(days[i].day
                              \o <<"T", "0", "0", ":", "0", "0", ":", "0", "0", "Z">>),
             Value |-> days[i].value]]

\* IsFunctionMetric with the first comparison only
IsFunctionMetric_CountOnly(metric) == metric = "function_requestCount"

\* metricParam === "function_requestCount" || metricParam === "function_cpuCostTime"
IsFunctionMetric(metric) ==
    metric = "function_requestCount" \/ metric = "function_cpuCostTime"

RECURSIVE SumValues(_)
\* list.reduce((acc, curr) => acc + curr.Value, 0)
SumValues(list) ==
    IF list = <<>> THEN 0
    ELSE JsAdd(SumValues(SubSeq(list, 1, Len(list) - 1)), list[Len(list)].Value)

\* cdn: the account time-series response body
AccountSeriesBody(metric, config, timeCfg, rows) ==
    LET detail == MergedDetail(rows)
        finalDetail == IF IsFunctionMetric(metric) /\ timeCfg.isLongTerm
                       THEN DailyRollup(detail)
                       ELSE detail
        totalSum == SumValues(detail)
    IN  [Data |-> << [TypeValue |->
            << [Detail |-> finalDetail, MetricName |-> config.name, Sum |-> totalSum] >>] >>]

RECURSIVE InsertDescValue(_, _)
InsertDescValue(sorted, e) ==
    IF sorted = <<>> THEN <<e>>
    ELSE IF e.Value - Head(sorted).Value <= 0
         THEN <<Head(sorted)>> \o InsertDescValue(Tail(sorted), e)
    ELSE <<e>> \o sorted

RECURSIVE SortDescValue(_, _)
\* list.sort((a, b) => b.Value - a.Value), a stable sort
SortDescValue(list, sorted) ==
    IF list = <<>> THEN sorted
    ELSE SortDescValue(Tail(list), InsertDescValue(sorted, Head(list)))

\* cdn: the account distribution response body
AccountDistributionBody(rows) ==
    LET detailData == [i \in 1..Len(rows) |-> [Key |-> rows[i].dim, Value |-> rows[i].val]]
    IN  [Data |-> << [DetailData |-> SortDescValue(detailData, <<>>)] >>]

\* The value a property access gives when the property is missing
undefined == "undefined"

\* cdn: the ad-hoc zone Top-N response body.  With a metric key found only on
\* Object.prototype the target field is a function, which no row has.
ZoneTopNBody(metric, groups) ==
    LET detailData ==
            [i \in 1..Len(groups) |->
                [Key |-> IF metric \in DOMAIN ZONE_TOPN_CONFIG THEN groups[i].dim
                         ELSE undefined,
                 Value |-> groups[i].val]]
    IN  [Data |-> << [DetailData |-> detailData] >>]

RECURSIVE SumOrZero(_)
\* dataArr.reduce((acc, item) => acc + (item.sum?.[config.sumid] || 0), 0)
SumOrZero(dataArr) ==
    IF dataArr = <<>> THEN 0
    ELSE SumOrZero(SubSeq(dataArr, 1, Len(dataArr) - 1)) + OrZero(dataArr[Len(dataArr)].val)

\* cdn: the zone-scope response body; a zone is [zoneTag, rows]
ZoneScopeBody(zonesData, idNameMap) ==
    LET resultList ==
            [i \in 1..Len(zonesData) |->
                [Key |-> IF zonesData[i].zoneTag \in DOMAIN idNameMap
                         THEN idNameMap[zonesData[i].zoneTag]
                         ELSE zonesData[i].zoneTag,
                 Value |-> SumOrZero(zonesData[i].rows)]]
    IN  [Data |-> << [DetailData |-> SortDescValue(resultList, <<>>)] >>]

\* esa: the TimeSeries body: apiData with Data[0].DetailData replaced by
\* Data[0].TypeValue and SummarizedData deleted.  A row is [Value, TimeStamp];
\* a missing TimeStamp is the empty string.
EsaSeriesBody(metricKey, apiData) ==
    LET first == apiData.Data[1]
        rows == IF Has(first, "DetailData") THEN first.DetailData ELSE <<>>
        detailList ==
            [i \in 1..Len(rows) |->
                [Value |-> OrZero(rows[i].Value),
                 Timestamp |-> IF rows[i].TimeStamp # <<>>
                               THEN EpochSeconds(rows[i].TimeStamp)
                               ELSE 0]]
        sum == IF Has(apiData, "SummarizedData") /\ apiData.SummarizedData # <<>>
               THEN OrZero(apiData.SummarizedData[1].Value)
               ELSE 0
        typeValue == << [MetricName |-> metricKey, Sum |-> sum, Detail |-> detailList] >>
        newFirst == [f \in (DOMAIN first \ {"DetailData"}) \cup {"TypeValue"} |->
                        IF f = "TypeValue" THEN typeValue ELSE first[f]]
    IN  [f \in DOMAIN apiData \ {"SummarizedData"} |->
            IF f = "Data" THEN [apiData.Data EXCEPT ![1] = newFirst] ELSE apiData[f]]

\* esa: one TopData row: DimensionValue renamed to Key, TimeStamp kept when
\* present
EsaTopRow(item) ==
    IF item.TimeStamp # <<>>
    THEN [Value |-> item.Value, Key |-> item.DimensionValue, TimeStamp |-> item.TimeStamp]
    ELSE [Value |-> item.Value, Key |-> item.DimensionValue]

\* esa: the TopData body: every Data item's DetailData is mapped in place
EsaTopBody(apiData) ==
    [apiData EXCEPT !.Data =
        [i \in 1..Len(apiData.Data) |->
            IF Has(apiData.Data[i], "DetailData")
            THEN [apiData.Data[i] EXCEPT !.DetailData =
                     [j \in 1..Len(apiData.Data[i].DetailData) |->
                         EsaTopRow(apiData.Data[i].DetailData[j])]]
            ELSE apiData.Data[i]]]

\* ------------------------------------------------------------------------
\* Inputs: requests, the clock, upstream answers
\* ------------------------------------------------------------------------
Reqs == {1}

Adapters == {"cdn", "esa"}

\* the metric keys a caller may send: every registry key, a key of no
\* registry, and two names every object inherits
Metrics ==
    DOMAIN METRIC_MAP \cup DOMAIN ZONE_TOPN_CONFIG \cup DOMAIN METRIC_CONFIG_LITERAL
    \cup {"unknown_key", "constructor", "toString"}

\* 1970-01-10T12:00:00.000Z
Clocks == {9 * MsPerDay + 12 * 3600000}

T_Jan05 == <<"1", "9", "7", "0", "-", "0", "1", "-", "0", "5",
             "T", "0", "0", ":", "0", "0", ":", "0", "0", "Z">>

T_Jan05_01h == <<"1", "9", "7", "0", "-", "0", "1", "-", "0", "5",
                 "T", "0", "1", ":", "0", "0", ":", "0", "0", "Z">>

T_Jan06 == <<"1", "9", "7", "0", "-", "0", "1", "-", "0", "6",
             "T", "0", "0", ":", "0", "0", ":", "0", "0", "Z">>

\* exactly three days before the clock
T_Jan07_12h == <<"1", "9", "7", "0", "-", "0", "1", "-", "0", "7",
                 "T", "1", "2", ":", "0", "0", ":", "0", "0", "Z">>

D_Jan06 == <<"1", "9", "7", "0", "-", "0", "1", "-", "0", "6">>

Malformed == <<"l", "a", "s", "t", " ", "w", "e", "e", "k">>

\* startTime / endTime of the query string; <<>> is an omitted parameter
StartTimes == {<<>>, T_Jan05, T_Jan07_12h, Malformed}

EndTimes == {<<>>, T_Jan06, Malformed}

\* what the esa adapter is sent: it passes the bounds on without parsing them
EsaStartTimes == {<<>>, T_Jan05}

EsaEndTimes == {<<>>, T_Jan06}

SeqsUpTo(S, n) == UNION {[1..k -> S] : k \in 0..n}

\* rows of a time-grouped dataset: two hours of one day and the next day
SeriesRows == [dim : {T_Jan05, T_Jan05_01h, D_Jan06}, val : {3, 5}]

\* rows of a dimension-grouped dataset
TopRows == [dim : {"A", "B", "C"}, val : {5, 9}]

\* response.json() rejects: the body is not JSON
InvalidJson == [invalidJson |-> TRUE]

\* a GraphQL answer with an errors array
ErrorsBody == [errors |-> <<[message |-> "unknown field"]>>]

\* a JSON object with neither data nor errors
NoDataBody == [message |-> "gateway"]

AccountBodies(rowSet) ==
    {InvalidJson, ErrorsBody, NoDataBody, [data |-> [viewer |-> [accounts |-> <<>>]]]}
    \cup {[data |-> [viewer |-> [accounts |-> <<[resultData |-> rows]>>]]] :
             rows \in SeqsUpTo(rowSet, MaxRows)}

TopNBodies ==
    {InvalidJson, ErrorsBody, NoDataBody, [data |-> [viewer |-> [zones |-> <<>>]]]}
    \cup {[data |-> [viewer |-> [zones |-> <<[httpRequestsAdaptiveGroups |-> rows]>>]]] :
             rows \in SeqsUpTo(TopRows, MaxRows)}

\* the zones of the account, as the zone-listing API returns them
ZoneItems == <<[id |-> "z1", name |-> "a.example"], [id |-> "z2", name |-> "b.example"],
               [id |-> "z3", name |-> "c.example"]>>

ZoneListBodies ==
    {InvalidJson, [success |-> FALSE]}
    \cup {[result |-> SubSeq(ZoneItems, 1, k)] : k \in 0..MaxZones}

\* zones of a GraphQL answer: a listed zone or one the listing did not name
ZoneData == [zoneTag : {"z1", "z9"}, rows : SeqsUpTo([val : {3, 5}], 1)]

ZoneScopeBodies ==
    {InvalidJson, ErrorsBody, NoDataBody}
    \cup {[data |-> [viewer |-> [zones |-> zs]]] : zs \in SeqsUpTo(ZoneData, MaxZones)}

EsaSeriesRows == [Value : {3, 5}, TimeStamp : {T_Jan05, T_Jan06}]

EsaTopRows == [Value : {5, 9}, DimensionValue : {"A", "B", "C"}, TimeStamp : {<<>>}]

EsaBodies(rowSet) ==
    {InvalidJson, [Data |-> <<>>], [RequestId |-> "r"]}
    \cup {[Data |-> <<[DetailData |-> rows]>>, SummarizedData |-> <<[Value |-> 8]>>] :
             rows \in SeqsUpTo(rowSet, MaxRows)}

\* the HTTP statuses an upstream answers with
Statuses == {200, 502}

\* fetch() rejects: no HTTP response at all
TransportFailure == [transport |-> "failed"]

\* what one upstream call ends in
Outcomes(bodies) ==
    {TransportFailure} \cup [transport : {"ok"}, status : Statuses, body : bodies]

\* response.ok
Ok(out) == out.status \in 200..299

\* ------------------------------------------------------------------------
\* State
\* ------------------------------------------------------------------------
VARIABLES
    METRIC_CONFIG,  \* esa: the registry object, after the load-time default-fill
    pc,             \* per request: where its handler stands
    adapter,        \* per request: the adapter that serves it
    query,          \* per request: req.query and whether getKeys() found credentials
    timeCfg,        \* per request (cdn): the result of getTimeConfig
    zoneList,       \* per request (cdn): what fetchZones returned
    calls,          \* per request: the upstream calls issued, in order
    upstream,       \* per request: what each of these calls ended in, in order
    responses       \* per request: the responses sent to the caller, in order

vars == <<METRIC_CONFIG, pc, adapter, query, timeCfg, zoneList, calls, upstream, responses>>

None == [none |-> TRUE]

Init ==
    /\ METRIC_CONFIG = DefaultFill(METRIC_CONFIG_LITERAL)
    /\ pc = [r \in Reqs |-> "idle"]
    /\ adapter = [r \in Reqs |-> "none"]
    /\ query = [r \in Reqs |-> None]
    /\ timeCfg = [r \in Reqs |-> None]
    /\ zoneList = [r \in Reqs |-> None]
    /\ calls = [r \in Reqs |-> <<>>]
    /\ upstream = [r \in Reqs |-> <<>>]
    /\ responses = [r \in Reqs |-> <<>>]

\* Respond through a module-level `res`: the response goes to every request
\* that is in flight, not only to the one that answers
Respond_SharedRes(r, status, body) ==
    /\ responses' = [q \in DOMAIN responses |->
                        IF q = r \/ pc[q] \notin {"idle", "done"}
                        THEN Append(responses[q], [status |-> status, body |-> body])
                        ELSE responses[q]]
    /\ pc' = [pc EXCEPT ![r] = "done"]

\* res.status(status).json(body); the handler returns
Respond(r, status, body) ==
    /\ responses' = [responses EXCEPT ![r] = Append(@, [status |-> status, body |-> body])]
    /\ pc' = [pc EXCEPT ![r] = "done"]

\* Fetch with the call issued twice, as a retrying transport would
Fetch_Twice(r, call, at) ==
    /\ calls' = [calls EXCEPT ![r] = Append(Append(@, call), call)]
    /\ pc' = [pc EXCEPT ![r] = at]
    /\ UNCHANGED responses

\* fetch(...) is issued and the handler awaits it at `at`
Fetch(r, call, at) ==
    /\ calls' = [calls EXCEPT ![r] = Append(@, call)]
    /\ pc' = [pc EXCEPT ![r] = at]
    /\ UNCHANGED responses

\* the awaited call of request r ends in `out`
Settle(r, out) == upstream' = [upstream EXCEPT ![r] = Append(@, out)]

\* catch (error) { res.status(500).json({ error: error.message }) }
InternalError(r, message) == Respond(r, 500, [error |-> message])

\* ------------------------------------------------------------------------
\* cdn: the queries
\* ------------------------------------------------------------------------
\* the field the ad-hoc query is grouped by; a key found on Object.prototype
\* interpolates a function's source text
TargetField(metric) ==
    IF metric \in DOMAIN ZONE_TOPN_CONFIG THEN ZONE_TOPN_CONFIG[metric]
    ELSE "function () { [native code] }"

ZoneTopNQuery(metric, cfg) ==
    [api |-> "graphql", scope |-> "zones", dataset |-> "httpRequestsAdaptiveGroups",
     limit |-> 10, orderBy |-> "count_DESC", dimension |-> TargetField(metric),
     filter |-> [datetime_geq |-> cfg.queryFrom, datetime_lt |-> cfg.queryTo]]

ZoneListCall == [api |-> "zones"]

\* the filter clause has the lower bound only; `to` is sent as a variable the
\* query never uses
ZoneScopeQuery(config, cfg, zoneIds) ==
    [api |-> "graphql", scope |-> "zones", dataset |-> cfg.datasetMode, limit |-> 1000,
     orderBy |-> cfg.orderBy, dimension |-> cfg.dimensionKey, sum |-> config.sumid,
     zoneIds |-> zoneIds, from |-> cfg.queryFrom]

AccountQuery(metric, config, cfg) ==
    IF Has(config, "isDistribution")
    THEN [api |-> "graphql", scope |-> "accounts",
          dataset |-> "httpRequestsOverviewAdaptiveGroups", limit |-> 100,
          orderBy |-> <<"sum", config.sumid, "DESC">>, dimension |-> config.dimension,
          sum |-> config.sumid,
          filter |-> [datetime_geq |-> cfg.start, datetime_leq |-> cfg.end]]
    ELSE IF IsFunctionMetric(metric)
    THEN [api |-> "graphql", scope |-> "accounts", dataset |-> "workersInvocationsAdaptive",
          limit |-> 1000, orderBy |-> "datetimeHour_ASC", dimension |-> "datetimeHour",
          sum |-> config.sumid, filter |-> cfg.filterObj]
    ELSE [api |-> "graphql", scope |-> "accounts", dataset |-> cfg.datasetMode,
          limit |-> 1000, orderBy |-> cfg.orderBy, dimension |-> cfg.dimensionKey,
          sum |-> config.sumid, filter |-> cfg.filterObj]

\* ------------------------------------------------------------------------
\* cdn: app.get("/traffic")
\* ------------------------------------------------------------------------
\* From the handler's entry to its first await or response.
CdnTraffic(r, creds, metric, startTime, endTime, now) ==
    /\ pc[r] = "idle"
    /\ adapter' = [adapter EXCEPT ![r] = "cdn"]
    /\ query' = [query EXCEPT ![r] =
           [metric |-> metric, startTime |-> startTime, endTime |-> endTime,
            creds |-> creds, now |-> now]]
    /\ IF ~creds
       THEN /\ Respond(r, 401, [error |-> "Missing credentials"])
            /\ UNCHANGED <<timeCfg, calls>>
       ELSE IF Truthy(ZONE_TOPN_CONFIG, metric)
       THEN /\ timeCfg' = [timeCfg EXCEPT ![r] = getTimeConfig(startTime, endTime, now)]
            /\ Fetch(r, ZoneTopNQuery(metric, timeCfg'[r]), "topn")
       ELSE IF ~Truthy(METRIC_MAP, metric)
       THEN /\ Respond(r, 400, [error |-> "Invalid metric"])
            /\ UNCHANGED <<timeCfg, calls>>
       ELSE /\ timeCfg' = [timeCfg EXCEPT ![r] = getTimeConfig(startTime, endTime, now)]
            /\ IF Has(Lookup(METRIC_MAP, metric), "scope")
                  /\ Lookup(METRIC_MAP, metric).scope = "zone"
               THEN Fetch(r, ZoneListCall, "zones")
               ELSE Fetch(r, AccountQuery(metric, Lookup(METRIC_MAP, metric), timeCfg'[r]),
                          "account")
    /\ UNCHANGED <<METRIC_CONFIG, zoneList, upstream>>

\* The ad-hoc zone Top-N call ends.
CdnTopNSettled(r, out) ==
    /\ pc[r] = "topn"
    /\ Settle(r, out)
    /\ IF out = TransportFailure THEN InternalError(r, "fetch failed")
       ELSE IF out.body = InvalidJson THEN InternalError(r, "Unexpected token")
       ELSE IF Has(out.body, "errors") THEN Respond(r, 400, out.body)
       ELSE IF ~Has(out.body, "data") \/ out.body.data.viewer.zones = <<>>
       THEN InternalError(r, "Cannot read properties of undefined")
       ELSE Respond(r, 200,
                ZoneTopNBody(query[r].metric,
                             out.body.data.viewer.zones[1].httpRequestsAdaptiveGroups))
    /\ UNCHANGED <<METRIC_CONFIG, adapter, query, timeCfg, zoneList, calls>>

\* fetchZones: the zone-listing call ends; with zones the analytics query follows.
CdnZonesSettled(r, out) ==
    /\ pc[r] = "zones"
    /\ Settle(r, out)
    /\ IF out = TransportFailure
       THEN InternalError(r, "fetch failed") /\ UNCHANGED <<zoneList, calls>>
       ELSE IF ~Ok(out)
       THEN InternalError(r, "Fetch Zones Failed") /\ UNCHANGED <<zoneList, calls>>
       ELSE IF out.body = InvalidJson
       THEN InternalError(r, "Unexpected token") /\ UNCHANGED <<zoneList, calls>>
       ELSE LET result == IF Has(out.body, "result") THEN out.body.result ELSE <<>>
                zoneIds == [i \in 1..Len(result) |-> result[i].id]
                idNameMap == [id \in {result[i].id : i \in 1..Len(result)} |->
                                 (CHOOSE i \in 1..Len(result) :
                                     /\ result[i].id = id
                                     /\ \A j \in (i + 1)..Len(result) : result[j].id # id
                                 )]
            IN  /\ zoneList' = [zoneList EXCEPT ![r] =
                       [zoneIds |-> zoneIds,
                        idNameMap |-> [id \in DOMAIN idNameMap |-> result[idNameMap[id]].name]]]
                /\ IF Len(zoneIds) = 0
                   THEN Respond(r, 200, [Data |-> <<>>]) /\ UNCHANGED calls
                   ELSE Fetch(r, ZoneScopeQuery(Lookup(METRIC_MAP, query[r].metric),
                                                timeCfg[r], zoneIds),
                              "zonequery")
    /\ UNCHANGED <<METRIC_CONFIG, adapter, query, timeCfg>>

\* The zone-scope analytics call ends.
CdnZoneQuerySettled(r, out) ==
    /\ pc[r] = "zonequery"
    /\ Settle(r, out)
    /\ IF out = TransportFailure THEN InternalError(r, "fetch failed")
       ELSE IF out.body = InvalidJson THEN InternalError(r, "Unexpected token")
       ELSE IF Has(out.body, "errors") THEN Respond(r, 400, out.body)
       ELSE Respond(r, 200,
                ZoneScopeBody(IF Has(out.body, "data") THEN out.body.data.viewer.zones
                              ELSE <<>>,
                              zoneList[r].idNameMap))
    /\ UNCHANGED <<METRIC_CONFIG, adapter, query, timeCfg, zoneList, calls>>

\* The account-scope analytics call ends.
CdnAccountSettled(r, out) ==
    /\ pc[r] = "account"
    /\ Settle(r, out)
    /\ LET config == Lookup(METRIC_MAP, query[r].metric)
       IN  IF out = TransportFailure THEN InternalError(r, "fetch failed")
           ELSE IF out.body = InvalidJson THEN InternalError(r, "Unexpected token")
           ELSE IF Has(out.body, "errors") THEN Respond(r, 400, out.body)
           ELSE IF ~Has(out.body, "data") \/ out.body.data.viewer.accounts = <<>>
           THEN Respond(r, 200, [Data |-> <<>>])
           ELSE LET resultData == out.body.data.viewer.accounts[1].resultData
                IN  IF Has(config, "isDistribution")
                    THEN Respond(r, 200, AccountDistributionBody(resultData))
                    ELSE Respond(r, 200,
                             AccountSeriesBody(query[r].metric, config, timeCfg[r],
                                               resultData))
    /\ UNCHANGED <<METRIC_CONFIG, adapter, query, timeCfg, zoneList, calls>>

\* ------------------------------------------------------------------------
\* esa: app.get('/traffic')
\* ------------------------------------------------------------------------
\* d.toISOString().slice(0, 19) + 'Z'
formatISO(d) == Slice0(toISOString(d), 19) \o <<"Z">>

\* config.f, or undefined for a config found on Object.prototype
Prop(config, f) == IF Has(config, f) THEN config[f] ELSE undefined

\* the parameters that depend on the request (the credentials, the nonce and
\* the constant parameters are left out)
EsaParams(config, startTime, endTime, now) ==
    [Action |-> Prop(config, "action"),
     EndTime |-> OrStr(endTime, formatISO(now)),
     Fields |-> [FieldName |-> Prop(config, "field"),
                 Dimension |-> <<Prop(config, "dimension")>>],
     Interval |-> "60",
     Limit |-> "10",
     Metric |-> Prop(config, "dimension"),
     StartTime |-> OrStr(startTime, formatISO(now - 24 * 60 * 60 * 1000)),
     Timestamp |-> formatISO(now)]

\* From the handler's entry to the upstream call or the response.
EsaTraffic(r, creds, metricKey, startTime, endTime, now) ==
    /\ pc[r] = "idle"
    /\ adapter' = [adapter EXCEPT ![r] = "esa"]
    /\ query' = [query EXCEPT ![r] =
           [metric |-> metricKey, startTime |-> startTime, endTime |-> endTime,
            creds |-> creds, now |-> now]]
    /\ IF ~creds
       THEN Respond(r, 500, [error |-> "Missing credentials"]) /\ UNCHANGED calls
       ELSE IF ~Truthy(METRIC_CONFIG, metricKey)
       THEN Respond(r, 400, [error |-> "Invalid metric parameter"]) /\ UNCHANGED calls
       ELSE Fetch(r, [api |-> "esa",
                      params |-> EsaParams(Lookup(METRIC_CONFIG, metricKey),
                                           startTime, endTime, now)],
                  "esa")
    /\ UNCHANGED <<METRIC_CONFIG, timeCfg, zoneList, upstream>>

\* The upstream call ends.
EsaSettled(r, out) ==
    /\ pc[r] = "esa"
    /\ Settle(r, out)
    /\ LET config == Lookup(METRIC_CONFIG, query[r].metric)
       IN  IF out = TransportFailure THEN InternalError(r, "Server error: fetch failed")
           ELSE IF ~Ok(out)
           THEN Respond(r, out.status, [error |-> "Aliyun API error", detail |-> out.body])
           ELSE IF out.body = InvalidJson
           THEN InternalError(r, "Server error: Unexpected token")
           ELSE IF Has(out.body, "Data") /\ Len(out.body.Data) > 0
           THEN IF Has(config, "type") /\ config.type = "TS"
                THEN Respond(r, 200, EsaSeriesBody(query[r].metric, out.body))
                ELSE Respond(r, 200, EsaTopBody(out.body))
           ELSE Respond(r, 200, out.body)
    /\ UNCHANGED <<METRIC_CONFIG, adapter, query, timeCfg, zoneList, calls>>

\* ------------------------------------------------------------------------
\* esa: request signing
\* ------------------------------------------------------------------------
\* The printable ASCII characters in code order, U+0020 to U+007E: the
\* characters the strings of the model are made of (the grave accent is
\* listed by its name)
Ascii ==
    << " ", "!", "\"", "#", "$", "%", "&", "'", "(", ")", "*", "+",
       ",", "-", ".", "/", "0", "1", "2", "3", "4", "5", "6", "7",
       "8", "9", ":", ";", "<", "=", ">", "?", "@", "A", "B", "C",
       "D", "E", "F", "G", "H", "I", "J", "K", "L", "M", "N", "O",
       "P", "Q", "R", "S", "T", "U", "V", "W", "X", "Y", "Z", "[",
       "\\", "]", "^", "_", "U+0060", "a", "b", "c", "d", "e", "f", "g",
       "h", "i", "j", "k", "l", "m", "n", "o", "p", "q", "r", "s",
       "t", "u", "v", "w", "x", "y", "z", "{", "|", "}", "~" >>

\* the UTF-16 code unit of a character, which for these is its UTF-8 byte
CharCode(c) == 31 + (CHOOSE i \in 1..Len(Ascii) : Ascii[i] = c)

\* new TextEncoder().encode(str)
encode(str) == [i \in 1..Len(str) |-> CharCode(str[i])]

\* String.fromCharCode(...bytes), one element for each byte
fromCharCode(bytes) == bytes

HexChars == <<"0", "1", "2", "3", "4", "5", "6", "7", "8", "9", "A", "B", "C", "D", "E", "F">>

\* the characters encodeURIComponent leaves as they are:
\* A-Z a-z 0-9 - _ . ! ~ * ' ( )
UriUnreserved ==
    {Ascii[i] : i \in (34..59) \cup (66..91) \cup (17..26)}
    \cup {"-", "_", ".", "!", "~", "*", "'", "(", ")"}

RECURSIVE Flatten(_)
\* the strings of a list, one after the other
Flatten(list) ==
    IF list = <<>> THEN <<>>
    ELSE IF Len(list) = 1 THEN list[1]
    ELSE Flatten(SubSeq(list, 1, Len(list) \div 2))
         \o Flatten(SubSeq(list, (Len(list) \div 2) + 1, Len(list)))

\* %XX, the byte of a character in upper-case hexadecimal
PercentByte(c) ==
    <<"%", HexChars[(CharCode(c) \div 16) + 1], HexChars[(CharCode(c) % 16) + 1]>>

\* encodeURIComponent(str): every other character becomes %XX of its byte
encodeURIComponent(str) ==
    Flatten([i \in 1..Len(str) |->
                IF str[i] \in UriUnreserved THEN <<str[i]>> ELSE PercentByte(str[i])])

\* str.replace(/pat/g, rep) for a literal pattern no two matches of which can
\* overlap (+, *, %7E): every match is replaced
ReplaceAll(str, pat, rep) ==
    LET n == Len(pat)
        MatchAt(i) == i >= 1 /\ i + n - 1 <= Len(str) /\ SubSeq(str, i, i + n - 1) = pat
    IN  Flatten([i \in 1..Len(str) |->
                    IF MatchAt(i) THEN rep
                    ELSE IF \E k \in 1..(n - 1) : MatchAt(i - k) THEN <<>>
                    ELSE <<str[i]>>])

\* encodeURIComponent(str).replace(/\+/g, '%20').replace(/\*/g, '%2A')
\*                        .replace(/%7E/g, '~')
percentEncode(str) ==
    ReplaceAll(ReplaceAll(ReplaceAll(encodeURIComponent(str),
                                     <<"+">>, <<"%", "2", "0">>),
                          <<"*">>, <<"%", "2", "A">>),
               <<"%", "7", "E">>, <<"~">>)

\* ---- SHA-1 and HMAC (crypto.subtle), on 32-bit words kept as <<high, low>>
\* ---- halves of 16 bits
\* x AND y for 4-bit x and y
AndNibble ==
    [x \in 0..15 |-> [y \in 0..15 |->
        ((x % 2) * (y % 2))
        + 2 * (((x \div 2) % 2) * ((y \div 2) % 2))
        + 4 * (((x \div 4) % 2) * ((y \div 4) % 2))
        + 8 * ((x \div 8) * (y \div 8))]]

And16(a, b) ==
    AndNibble[a % 16][b % 16]
    + 16 * AndNibble[(a \div 16) % 16][(b \div 16) % 16]
    + 256 * AndNibble[(a \div 256) % 16][(b \div 256) % 16]
    + 4096 * AndNibble[a \div 4096][b \div 4096]

Xor16(a, b) == a + b - 2 * And16(a, b)

And32(a, b) == <<And16(a[1], b[1]), And16(a[2], b[2])>>

Xor32(a, b) == <<Xor16(a[1], b[1]), Xor16(a[2], b[2])>>

Not32(a) == <<65535 - a[1], 65535 - a[2]>>

\* (a + b) mod 2^32
Add32(a, b) ==
    LET lo == a[2] + b[2]
    IN  <<(a[1] + b[1] + (lo \div 65536)) % 65536, lo % 65536>>

\* rotate left by n bits, 0 < n < 16
RotlShort(a, n) ==
    LET up == 2 ^ n
        down == 2 ^ (16 - n)
    IN  <<((a[1] * up) % 65536) + (a[2] \div down),
          ((a[2] * up) % 65536) + (a[1] \div down)>>

\* rotate left by n bits, 0 < n < 32, n # 16
Rotl32(a, n) == IF n < 16 THEN RotlShort(a, n) ELSE RotlShort(<<a[2], a[1]>>, n - 16)

\* the round function and constant of round t, 0 <= t < 80
ShaF(t, b, c, d) ==
    IF t < 20 THEN Add32(And32(b, c), And32(Not32(b), d))
    ELSE IF t >= 40 /\ t < 60 THEN Add32(And32(b, c), And32(d, Xor32(b, c)))
    ELSE Xor32(Xor32(b, c), d)

ShaK(t) ==
    IF t < 20 THEN <<23170, 31129>>
    ELSE IF t < 40 THEN <<28377, 60321>>
    ELSE IF t < 60 THEN <<36635, 48348>>
    ELSE <<51810, 49622>>

ShaInit == <<<<26437, 8961>>, <<61389, 43913>>, <<39098, 56574>>, <<4146, 21622>>, <<50130, 57840>>>>

RECURSIVE ShaSchedule(_)
\* the 80 words of a block's message schedule, from its 16 words
ShaSchedule(W) ==
    IF Len(W) = 80 THEN W
    ELSE LET t == Len(W) + 1
         IN  ShaSchedule(Append(W,
                 Rotl32(Xor32(Xor32(W[t - 3], W[t - 8]), Xor32(W[t - 14], W[t - 16])), 1)))

RECURSIVE ShaRounds(_, _, _)
\* the 80 rounds on the working state s = <<a, b, c, d, e>>
ShaRounds(t, s, W) ==
    IF Len(s) = 5 /\ t = 80 THEN s
    ELSE ShaRounds(t + 1,
             <<Add32(Add32(Add32(Rotl32(s[1], 5), ShaF(t, s[2], s[3], s[4])),
                           Add32(s[5], ShaK(t))),
                     W[t + 1]),
               s[1], Rotl32(s[2], 30), s[3], s[4]>>,
             W)

\* the compression of one 64-byte block into the hash state h
ShaBlock(h, block) ==
    LET W == ShaSchedule([i \in 1..16 |->
                 <<block[4 * i - 3] * 256 + block[4 * i - 2],
                   block[4 * i - 1] * 256 + block[4 * i]>>])
        s == ShaRounds(0, h, W)
    IN  [i \in 1..5 |-> Add32(h[i], s[i])]

\* the message, a 1 bit, zeros up to 56 mod 64, and the bit length in 8 bytes
ShaPad(bytes) ==
    LET n == Len(bytes)
        zeros == (119 - (n % 64)) % 64
        bits == 8 * n
    IN  bytes \o <<128>> \o [i \in 1..zeros |-> 0]
        \o <<0, 0, 0, 0, 0, (bits \div 65536) % 256, (bits \div 256) % 256, bits % 256>>

RECURSIVE ShaBlocks(_, _)
ShaBlocks(h, padded) ==
    IF padded = <<>> THEN h
    ELSE ShaBlocks(ShaBlock(h, SubSeq(padded, 1, 64)), SubSeq(padded, 65, Len(padded)))

\* SHA-1: the 20 bytes of the digest
Sha1(bytes) ==
    LET h == ShaBlocks(ShaInit, ShaPad(bytes))
    IN  [i \in 1..20 |->
            LET half == h[((i - 1) \div 4) + 1][(((i - 1) % 4) \div 2) + 1]
            IN  IF i % 2 = 1 THEN half \div 256 ELSE half % 256]

\* x XOR y for bytes
Xor8(x, y) == Xor16(x, y)

\* crypto.subtle.sign('HMAC', key, message) with hash SHA-1
HmacSha1(keyBytes, messageBytes) ==
    LET k0 == IF Len(keyBytes) > 64 THEN Sha1(keyBytes) ELSE keyBytes
        k == k0 \o [i \in 1..(64 - Len(k0)) |-> 0]
        ipad == [i \in 1..64 |-> Xor8(k[i], 54)]
        opad == [i \in 1..64 |-> Xor8(k[i], 92)]
    IN  Sha1(opad \o Sha1(ipad \o messageBytes))

Base64Chars ==
    [i \in 1..64 |->
        IF i <= 26 THEN Ascii[33 + i]
        ELSE IF i <= 52 THEN Ascii[39 + i]
        ELSE IF i <= 62 THEN Ascii[i - 36]
        ELSE IF i = 63 THEN "+" ELSE "/"]

RECURSIVE btoa(_)
\* btoa(binaryString): base64 with the standard alphabet and = padding
btoa(bytes) ==
    IF bytes = <<>> THEN <<>>
    ELSE IF Len(bytes) = 1
    THEN <<Base64Chars[(bytes[1] \div 4) + 1], Base64Chars[((bytes[1] % 4) * 16) + 1],
           "=", "=">>
    ELSE IF Len(bytes) = 2
    THEN <<Base64Chars[(bytes[1] \div 4) + 1],
           Base64Chars[((bytes[1] % 4) * 16) + (bytes[2] \div 16) + 1],
           Base64Chars[((bytes[2] % 16) * 4) + 1], "=">>
    ELSE <<Base64Chars[(bytes[1] \div 4) + 1],
           Base64Chars[((bytes[1] % 4) * 16) + (bytes[2] \div 16) + 1],
           Base64Chars[((bytes[2] % 16) * 4) + (bytes[3] \div 64) + 1],
           Base64Chars[(bytes[3] % 64) + 1]>>
         \o btoa(SubSeq(bytes, 4, Len(bytes)))

\* calculateSignature(secretKey, stringToSign)
calculateSignature(secretKey, stringToSign) ==
    btoa(fromCharCode(HmacSha1(encode(secretKey \o <<"&">>), encode(stringToSign))))

\* ---- the parameter object: its entries [key, value] in insertion order
\* Object.keys(params)
ObjectKeys(params) == [i \in 1..Len(params) |-> params[i].key]

\* params[key]
ValueOf(params, key) == params[CHOOSE i \in 1..Len(params) : params[i].key = key].value

\* params[key] = value: a new key goes last, a key already there keeps its place
SetProp(params, key, value) ==
    IF \E i \in 1..Len(params) : params[i].key = key
    THEN [i \in 1..Len(params) |->
             IF params[i].key = key THEN [key |-> key, value |-> value] ELSE params[i]]
    ELSE Append(params, [key |-> key, value |-> value])

RECURSIVE CodeLess(_, _)
\* a < b for strings: by UTF-16 code units, a proper prefix first
CodeLess(a, b) ==
    IF b = <<>> THEN FALSE
    ELSE IF a = <<>> THEN TRUE
    ELSE IF Head(a) = Head(b) THEN CodeLess(Tail(a), Tail(b))
    ELSE CharCode(Head(a)) < CharCode(Head(b))

RECURSIVE InsertAscCode(_, _)
InsertAscCode(sorted, e) ==
    IF sorted = <<>> THEN <<e>>
    ELSE IF ~CodeLess(e, Head(sorted))
         THEN <<Head(sorted)>> \o InsertAscCode(Tail(sorted), e)
    ELSE <<e>> \o sorted

\* sort left out: the keys stay in insertion order
sort_Unsorted(list, sorted) == list

RECURSIVE sort(_, _)
\* list.sort() without a comparator: ascending by code units
sort(list, sorted) ==
    IF list = <<>> THEN sorted
    ELSE sort(Tail(list), InsertAscCode(sorted, Head(list)))

\* list.join(sep)
join(list, sep) ==
    Flatten([i \in 1..Len(list) |-> IF i = 1 THEN list[1] ELSE sep \o list[i]])

\* Object.keys(params).sort()
\*     .map(key => `${percentEncode(key)}=${percentEncode(params[key])}`).join('&')
canonicalizedQuery(params) ==
    LET keys == sort(ObjectKeys(params), <<>>)
    IN  join([i \in 1..Len(keys) |->
                 percentEncode(keys[i]) \o <<"=">> \o percentEncode(ValueOf(params, keys[i]))],
             <<"&">>)

\* `GET&${percentEncode('/')}&${percentEncode(canonicalizedQuery)}`
stringToSign(canonicalized) ==
    <<"G", "E", "T", "&">> \o percentEncode(<<"/">>) \o <<"&">> \o percentEncode(canonicalized)

\* the characters the application/x-www-form-urlencoded serializer leaves as
\* they are: A-Z a-z 0-9 * - . _
FormUnreserved ==
    {Ascii[i] : i \in (34..59) \cup (66..91) \cup (17..26)} \cup {"*", "-", ".", "_"}

\* the serializer of URLSearchParams: a space becomes +, every other
\* character outside the set becomes %XX
FormEncode(str) ==
    Flatten([i \in 1..Len(str) |->
                IF str[i] \in FormUnreserved THEN <<str[i]>>
                ELSE IF str[i] = " " THEN <<"+">>
                ELSE PercentByte(str[i])])

\* `${new URLSearchParams(params)}`: the entries in insertion order
URLSearchParams(params) ==
    join([i \in 1..Len(params) |->
             FormEncode(params[i].key) \o <<"=">> \o FormEncode(params[i].value)],
         <<"&">>)

SignatureKey == <<"S", "i", "g", "n", "a", "t", "u", "r", "e">>

\* fetch(apiUrl): the call, with the strings it was signed from
SignedCall(canonicalized, toSign, params) ==
    [api |-> "esa", canonicalizedQuery |-> canonicalized, stringToSign |-> toSign,
     params |-> params, search |-> URLSearchParams(params)]

\* params.Signature = await calculateSignature(secretKey, stringToSign), and
\* the call
SignAndCall(secretKey, canonicalized, toSign, params) ==
    SignedCall(canonicalized, toSign,
               SetProp(params, SignatureKey, calculateSignature(secretKey, toSign)))

\* The handler from the finished parameter object to the upstream call: it
\* canonicalizes, signs, stores the signature in the object and sends the
\* object as the query string.
EsaSign(r, secretKey, params) ==
    /\ pc[r] = "idle"
    /\ adapter' = [adapter EXCEPT ![r] = "esa"]
    /\ query' = [query EXCEPT ![r] =
           [creds |-> TRUE, secretKey |-> secretKey, params |-> params]]
    /\ Fetch(r, SignAndCall(secretKey, canonicalizedQuery(params),
                            stringToSign(canonicalizedQuery(params)), params),
             "esa")
    /\ UNCHANGED <<METRIC_CONFIG, timeCfg, zoneList, upstream>>

\* ------------------------------------------------------------------------
\* Specification
\* ------------------------------------------------------------------------
\* the config the cdn handler holds for a metric that passed its checks
CdnConfigOf(metric) == Lookup(METRIC_MAP, metric)

\* the answers the account-scope call may get: rows of the shape queried
AccountOutcomes(metric) ==
    Outcomes(AccountBodies(IF Has(CdnConfigOf(metric), "isDistribution")
                           THEN TopRows ELSE SeriesRows))

EsaOutcomes(metric) ==
    Outcomes(EsaBodies(IF Has(Lookup(METRIC_CONFIG, metric), "type")
                          /\ Lookup(METRIC_CONFIG, metric).type = "TS"
                       THEN EsaSeriesRows ELSE EsaTopRows))

Next ==
    \E r \in Reqs :
        \/ \E creds \in BOOLEAN, metric \in Metrics, startTime \in StartTimes,
              endTime \in EndTimes, now \in Clocks :
               CdnTraffic(r, creds, metric, startTime, endTime, now)
        \/ \E out \in Outcomes(TopNBodies) : CdnTopNSettled(r, out)
        \/ \E out \in Outcomes(ZoneListBodies) : CdnZonesSettled(r, out)
        \/ \E out \in Outcomes(ZoneScopeBodies) : CdnZoneQuerySettled(r, out)
        \/ /\ pc[r] = "account"
           /\ \E out \in AccountOutcomes(query[r].metric) : CdnAccountSettled(r, out)
        \/ \E creds \in BOOLEAN, metricKey \in Metrics, startTime \in EsaStartTimes,
              endTime \in EsaEndTimes, now \in Clocks :
               EsaTraffic(r, creds, metricKey, startTime, endTime, now)
        \/ /\ pc[r] = "esa"
           /\ \E out \in EsaOutcomes(query[r].metric) : EsaSettled(r, out)

Spec == Init /\ [][Next]_vars

\* ------------------------------------------------------------------------
\* Two requests in flight at once
\* ------------------------------------------------------------------------
\* Node runs one handler at a time and switches between requests at their
\* awaits only: every action above is one such run-to-await step.
ConcReqs == {1, 2}

\* one metric for each path of the handlers, and an unknown one
ConcMetrics ==
    {"l7Flow_request_sip", "l7Flow_flux", "l7Flow_request_country",
     "function_requestCount", "l7Flow_outFlux_domain", "unknown_key"}

ConcStartTimes == {<<>>, T_Jan05}

ConcOutcomes(bodies) ==
    {TransportFailure} \cup [transport : {"ok"}, status : {200}, body : bodies]

ConcTopNBodies ==
    {ErrorsBody,
     [data |-> [viewer |-> [zones |->
         <<[httpRequestsAdaptiveGroups |-> <<[dim |-> "A", val |-> 5]>>]>>]]]}

ConcZoneListBodies == {[result |-> <<>>], [result |-> SubSeq(ZoneItems, 1, 1)]}

ConcZoneScopeBodies ==
    {ErrorsBody,
     [data |-> [viewer |-> [zones |-> <<[zoneTag |-> "z1", rows |-> <<[val |-> 3]>>]>>]]]}

ConcAccountBodies(metric) ==
    {ErrorsBody,
     [data |-> [viewer |-> [accounts |-> <<[resultData |->
         IF Has(CdnConfigOf(metric), "isDistribution")
         THEN <<[dim |-> "A", val |-> 5], [dim |-> "B", val |-> 9]>>
         ELSE <<[dim |-> T_Jan05, val |-> 3], [dim |-> T_Jan05_01h, val |-> 5]>>]>>]]]}

ConcEsaBodies(metric) ==
    {[RequestId |-> "r"],
     [Data |-> <<[DetailData |->
          IF Has(Lookup(METRIC_CONFIG, metric), "type")
             /\ Lookup(METRIC_CONFIG, metric).type = "TS"
          THEN <<[Value |-> 3, TimeStamp |-> T_Jan05]>>
          ELSE <<[Value |-> 5, DimensionValue |-> "A", TimeStamp |-> <<>>]>>]>>,
      SummarizedData |-> <<[Value |-> 8]>>]}

InitConc ==
    /\ METRIC_CONFIG = DefaultFill(METRIC_CONFIG_LITERAL)
    /\ pc = [r \in ConcReqs |-> "idle"]
    /\ adapter = [r \in ConcReqs |-> "none"]
    /\ query = [r \in ConcReqs |-> None]
    /\ timeCfg = [r \in ConcReqs |-> None]
    /\ zoneList = [r \in ConcReqs |-> None]
    /\ calls = [r \in ConcReqs |-> <<>>]
    /\ upstream = [r \in ConcReqs |-> <<>>]
    /\ responses = [r \in ConcReqs |-> <<>>]

NextConc ==
    \E r \in ConcReqs :
        \/ \E metric \in ConcMetrics, startTime \in ConcStartTimes, now \in Clocks :
               CdnTraffic(r, TRUE, metric, startTime, <<>>, now)
        \/ \E out \in ConcOutcomes(ConcTopNBodies) : CdnTopNSettled(r, out)
        \/ \E out \in ConcOutcomes(ConcZoneListBodies) : CdnZonesSettled(r, out)
        \/ \E out \in ConcOutcomes(ConcZoneScopeBodies) : CdnZoneQuerySettled(r, out)
        \/ /\ pc[r] = "account"
           /\ \E out \in ConcOutcomes(ConcAccountBodies(query[r].metric)) :
                  CdnAccountSettled(r, out)
        \/ \E metricKey \in ConcMetrics, startTime \in ConcStartTimes, now \in Clocks :
               EsaTraffic(r, TRUE, metricKey, startTime, <<>>, now)
        \/ /\ pc[r] = "esa"
           /\ \E out \in ConcOutcomes(ConcEsaBodies(query[r].metric)) : EsaSettled(r, out)

SpecConc == InitConc /\ [][NextConc]_vars

\* ------------------------------------------------------------------------
\* Signing: two parameter objects signed side by side
\* ------------------------------------------------------------------------
K_Metric == <<"M", "e", "t", "r", "i", "c">>

K_SignatureNonce ==
    <<"S", "i", "g", "n", "a", "t", "u", "r", "e", "N", "o", "n", "c", "e">>

K_Timestamp == <<"T", "i", "m", "e", "s", "t", "a", "m", "p">>

\* config.dimension: "ALL", and a value with the characters percentEncode
\* treats specially
SignMetrics == {<<"A", "L", "L">>, <<"a", "+", "b", " ", "*", "~">>}

\* Math.random().toString(36).substring(2) + Date.now()
SignNonces == {<<"k", "3", "x", "1">>, <<"k", "3", "x", "2">>}

\* getKeys().secretKey
SecretKeys == {<<"s", "k", "1">>, <<"s", "k", "2">>}

\* the parameter objects: the keys as the handler writes them (ascending), and
\* the same entries inserted in the opposite order
SignParams ==
    UNION {
        LET byKey == <<[key |-> K_Metric, value |-> m],
                       [key |-> K_SignatureNonce, value |-> n],
                       [key |-> K_Timestamp, value |-> formatISO(now)]>>
        IN  {byKey, <<byKey[3], byKey[2], byKey[1]>>} :
        <<m, n, now>> \in SignMetrics \X SignNonces \X Clocks }

NextSign ==
    \E r \in ConcReqs, secretKey \in SecretKeys, params \in SignParams :
        EsaSign(r, secretKey, params)

SpecSign == InitConc /\ [][NextSign]_vars

\* ------------------------------------------------------------------------
\* Properties
\* ------------------------------------------------------------------------
\* the own keys of the registry an adapter validates the metric against
RegistryKeys(a) ==
    IF a = "cdn" THEN DOMAIN METRIC_MAP \cup DOMAIN ZONE_TOPN_CONFIG
    ELSE DOMAIN METRIC_CONFIG

\* request r has been received with credentials present
Received(r) == adapter[r] # "none" /\ query[r].creds

\* C1: a request with credentials whose metric is not a key of the adapter's
\* registry gets 400 {error: "Invalid metric"} and makes no upstream call.
C1_UnknownMetricRejected ==
    \A r \in Reqs :
        (Received(r) /\ query[r].metric \notin RegistryKeys(adapter[r]))
        => /\ calls[r] = <<>>
           /\ responses[r] = <<[status |-> 400, body |-> [error |-> "Invalid metric"]]>>

\* the part of C1 the cdn adapter fails: no upstream call for a metric that is
\* no registry key
C1_NoCallForUnknownMetric ==
    \A r \in Reqs :
        (Received(r) /\ query[r].metric \notin RegistryKeys(adapter[r]))
        => calls[r] = <<>>

\* the metric passed the handler's validation
Validated(r) == Received(r) /\ Truthy(IF adapter[r] = "cdn"
                                      THEN [k \in RegistryKeys("cdn") |-> TRUE]
                                      ELSE METRIC_CONFIG,
                                      query[r].metric)

\* the request runs the cdn zone-scope path
ZoneScopePath(r) ==
    /\ adapter[r] = "cdn"
    /\ query[r].metric \in DOMAIN METRIC_MAP
    /\ ~Truthy(ZONE_TOPN_CONFIG, query[r].metric)
    /\ METRIC_MAP[query[r].metric].scope = "zone"

\* C2: a request makes at most two upstream calls; two only on the cdn
\* zone-scope path, the analytics query being issued after the zone listing
\* has returned, with the returned zone ids as its input; every other
\* validated request makes exactly one call.
C2_UpstreamCallBound ==
    \A r \in Reqs :
        /\ Len(calls[r]) <= 2
        /\ Len(calls[r]) = 2 =>
              /\ Received(r) /\ ZoneScopePath(r)
              /\ calls[r][1].api = "zones" /\ calls[r][2].api = "graphql"
              /\ Len(upstream[r]) >= 1
              /\ upstream[r][1] # TransportFailure
              /\ Has(upstream[r][1].body, "result")
              /\ upstream[r][1].body.result # <<>>
              /\ calls[r][2].zoneIds =
                     [i \in 1..Len(upstream[r][1].body.result) |->
                         upstream[r][1].body.result[i].id]
        /\ (Received(r) /\ Validated(r) /\ ~ZoneScopePath(r)) => Len(calls[r]) = 1
        /\ (Received(r) /\ Validated(r) /\ ZoneScopePath(r)) => Len(calls[r]) \in {1, 2}

\* C2 witness: a finished zone-scope request that made both calls
C2_TwoCallsMade ==
    \E r \in Reqs : pc[r] = "done" /\ Len(calls[r]) = 2 /\ Len(upstream[r]) = 2

\* the request is finished and its last upstream call was a GraphQL call that
\* returned a JSON body
GraphqlAnswered(r) ==
    /\ pc[r] = "done" /\ adapter[r] = "cdn"
    /\ calls[r] # <<>> /\ Len(upstream[r]) = Len(calls[r])
    /\ calls[r][Len(calls[r])].api = "graphql"
    /\ upstream[r][Len(calls[r])] # TransportFailure
    /\ upstream[r][Len(calls[r])].body # InvalidJson

LastBody(r) == upstream[r][Len(upstream[r])].body

\* the GraphQL answer has no errors and lists no zone / no account
EmptyAnswer(body) ==
    /\ ~Has(body, "errors") /\ Has(body, "data")
    /\ IF Has(body.data.viewer, "zones") THEN body.data.viewer.zones = <<>>
       ELSE body.data.viewer.accounts = <<>>

\* the response body holds no data point
EmptyResult(body) ==
    /\ Has(body, "Data")
    /\ body.Data = <<>> \/ (Has(body.Data[1], "DetailData") /\ body.Data[1].DetailData = <<>>)

\* C3: on every cdn query path an answer with an errors array gives 400 with
\* the raw upstream payload, and an answer without errors and with zero zones
\* or accounts gives a 200 with an empty result.
C3_ErrorsAndEmptyAnswers ==
    \A r \in Reqs :
        GraphqlAnswered(r) =>
            /\ Has(LastBody(r), "errors") =>
                   responses[r] = <<[status |-> 400, body |-> LastBody(r)]>>
            /\ EmptyAnswer(LastBody(r)) =>
                   /\ Len(responses[r]) = 1
                   /\ responses[r][1].status = 200
                   /\ EmptyResult(responses[r][1].body)

\* an upstream call ended in a transport failure or a non-success status
Failed(out) == out = TransportFailure \/ ~Ok(out)

\* C4: when an upstream call fails (transport failure or non-success status)
\* the request ends with exactly one error response, and no call follows the
\* failed one.
C4_FailureSurfacedOnce ==
    \A r \in Reqs :
        \A i \in 1..Len(upstream[r]) :
            Failed(upstream[r][i]) =>
                /\ Len(calls[r]) = i
                /\ pc[r] = "done"
                /\ Len(responses[r]) = 1
                /\ responses[r][1].status >= 400

\* the part of C4 the code keeps: no call follows a failed one, and exactly
\* one response is sent
C4_NoRetryOneResponse ==
    \A r \in Reqs :
        \A i \in 1..Len(upstream[r]) :
            Failed(upstream[r][i]) =>
                Len(calls[r]) = i /\ pc[r] = "done" /\ Len(responses[r]) = 1

\* the request got a 200 whose body has a first Data item with field f
Answered200With(r, f) ==
    /\ pc[r] = "done" /\ Len(responses[r]) = 1 /\ responses[r][1].status = 200
    /\ Has(responses[r][1].body, "Data") /\ responses[r][1].body.Data # <<>>
    /\ Has(responses[r][1].body.Data[1], f)

\* the request got a TimeSeries response
SeriesResponse(r) == Answered200With(r, "TypeValue")

SeriesOf(r) == responses[r][1].body.Data[1].TypeValue[1]

\* the upstream rows behind a TimeSeries response, as <<second, value>>
UpstreamPoints(r) ==
    IF adapter[r] = "cdn"
    THEN LET rows == LastBody(r).data.viewer.accounts[1].resultData
         IN  [i \in 1..Len(rows) |-> <<DateParse(rows[i].dim) \div 1000, rows[i].val>>]
    ELSE LET rows == LastBody(r).Data[1].DetailData
         IN  [i \in 1..Len(rows) |-> <<DateParse(rows[i].TimeStamp) \div 1000, rows[i].Value>>]

RECURSIVE TotalAt(_, _)
\* the total of the values of the points at second ts
TotalAt(points, ts) ==
    IF points = <<>> THEN 0
    ELSE (IF Head(points)[1] = ts THEN Head(points)[2] ELSE 0) + TotalAt(Tail(points), ts)

StrictlyAscending(detail) ==
    \A i \in 1..(Len(detail) - 1) : detail[i].Timestamp < detail[i + 1].Timestamp

\* every upstream second has exactly one point, valued the total of its rows
MergedPerSecond(detail, points) ==
    \A i \in 1..Len(points) :
        /\ Cardinality({j \in 1..Len(detail) : detail[j].Timestamp = points[i][1]}) = 1
        /\ \E j \in 1..Len(detail) :
              /\ detail[j].Timestamp = points[i][1]
              /\ detail[j].Value = TotalAt(points, points[i][1])

\* the daily rollup applies to the request
RolledUp(r) ==
    adapter[r] = "cdn" /\ IsFunctionMetric(query[r].metric) /\ timeCfg[r].isLongTerm

\* C5: in every TimeSeries response of either adapter Detail is strictly
\* ascending by Timestamp, and rows of the same epoch second are merged into
\* one point valued their sum (checked where Detail is per second, that is
\* where no daily rollup applies).
C5_SeriesAscendingMerged ==
    \A r \in Reqs :
        SeriesResponse(r) =>
            /\ StrictlyAscending(SeriesOf(r).Detail)
            /\ ~RolledUp(r) => MergedPerSecond(SeriesOf(r).Detail, UpstreamPoints(r))

\* the part of C5 that holds: the cdn adapter's TimeSeries responses
C5_CdnSeriesAscendingMerged ==
    \A r \in Reqs :
        (SeriesResponse(r) /\ adapter[r] = "cdn") =>
            /\ StrictlyAscending(SeriesOf(r).Detail)
            /\ ~RolledUp(r) => MergedPerSecond(SeriesOf(r).Detail, UpstreamPoints(r))

\* the request got a Distribution response
DistributionResponse(r) == Answered200With(r, "DetailData")

DetailDataOf(r) == responses[r][1].body.Data[1].DetailData

\* the upstream rows behind a Distribution response, as [Key, Value]
UpstreamPairs(r) ==
    IF adapter[r] = "esa"
    THEN LET rows == LastBody(r).Data[1].DetailData
         IN  [i \in 1..Len(rows) |-> [Key |-> rows[i].DimensionValue, Value |-> rows[i].Value]]
    ELSE LET rows == IF Has(LastBody(r).data.viewer, "zones")
                     THEN LastBody(r).data.viewer.zones[1].httpRequestsAdaptiveGroups
                     ELSE LastBody(r).data.viewer.accounts[1].resultData
         IN  [i \in 1..Len(rows) |-> [Key |-> rows[i].dim, Value |-> rows[i].val]]

Descending(list) ==
    \A i \in 1..Len(list), j \in 1..Len(list) : i < j => list[i].Value >= list[j].Value

\* list holds exactly the pairs of `pairs`, equal values in their order there
StablePermutation(list, pairs) ==
    /\ Len(list) = Len(pairs)
    /\ \E p \in [1..Len(list) -> 1..Len(list)] :
          /\ \A i, j \in 1..Len(list) : i # j => p[i] # p[j]
          /\ \A i \in 1..Len(list) :
                list[i].Key = pairs[p[i]].Key /\ list[i].Value = pairs[p[i]].Value
          /\ \A i, j \in 1..Len(list) :
                (i < j /\ list[i].Value = list[j].Value) => p[i] < p[j]

\* the rows of the response are upstream rows renamed (every path but the
\* zone-scope one, which sums per zone), for a metric that is a registry key
RowsPassedOn(r) == ~ZoneScopePath(r) /\ query[r].metric \in RegistryKeys(adapter[r])

\* C6: in every Distribution response of either adapter DetailData is
\* descending by Value, ties in upstream order, and holds the (Key, Value)
\* pairs of the upstream rows.
C6_DistributionDescendingStable ==
    \A r \in Reqs :
        DistributionResponse(r) =>
            /\ Descending(DetailDataOf(r))
            /\ RowsPassedOn(r) => StablePermutation(DetailDataOf(r), UpstreamPairs(r))

\* the part of C6 that holds: the cdn account-scope and zone-scope paths
C6_CdnSortedPaths ==
    \A r \in Reqs :
        (DistributionResponse(r) /\ adapter[r] = "cdn"
         /\ query[r].metric \in DOMAIN METRIC_MAP) =>
            /\ Descending(DetailDataOf(r))
            /\ RowsPassedOn(r) => StablePermutation(DetailDataOf(r), UpstreamPairs(r))

RECURSIVE TotalOf(_)
\* the total of a list of numbers
TotalOf(numbers) == IF numbers = <<>> THEN 0 ELSE Head(numbers) + TotalOf(Tail(numbers))

\* the request got a cdn account-scope TimeSeries response
AccountSeriesResponse(r) ==
    /\ SeriesResponse(r) /\ adapter[r] = "cdn"
    /\ query[r].metric \in DOMAIN METRIC_MAP
    /\ METRIC_MAP[query[r].metric].scope = "account"

\* C7: in every cdn account-scope TimeSeries response Sum is the total of the
\* summed field over all upstream rows, and the total of the Values of the
\* returned Detail, with the daily rollup and without it.
C7_SumIsTotal ==
    \A r \in Reqs :
        AccountSeriesResponse(r) =>
            LET rows == LastBody(r).data.viewer.accounts[1].resultData
                detail == SeriesOf(r).Detail
            IN  /\ SeriesOf(r).Sum = TotalOf([i \in 1..Len(rows) |-> rows[i].val])
                /\ SeriesOf(r).Sum = TotalOf([i \in 1..Len(detail) |-> detail[i].Value])

\* C7 witness: a rolled-up response: two hourly rows of one day, 3 and 5,
\* returned as one daily point, Sum = 8
C7_RolledUpTotal ==
    \E r \in Reqs :
        /\ AccountSeriesResponse(r) /\ RolledUp(r)
        /\ Len(LastBody(r).data.viewer.accounts[1].resultData) = 2
        /\ Len(SeriesOf(r).Detail) = 1
        /\ SeriesOf(r).Sum = 8

\* the adapter that is not a
Other(a) == IF a = "cdn" THEN "esa" ELSE "cdn"

\* C8 as stated: no metric key is accepted by both adapters: the key of a
\* request an adapter accepted is no key of the other adapter's registry.
C8_RegistriesDisjoint ==
    \A r \in Reqs :
        (Received(r) /\ calls[r] # <<>> /\ query[r].metric \in RegistryKeys(adapter[r]))
        => query[r].metric \notin RegistryKeys(Other(adapter[r]))

\* the keys both adapters accept
SharedKeys ==
    {"l7Flow_flux", "l7Flow_outFlux", "l7Flow_request", "l7Flow_inFlux",
     "l7Flow_outFlux_resourceType", "l7Flow_request_resourceType",
     "l7Flow_outFlux_country", "l7Flow_request_country",
     "l7Flow_outFlux_domain", "l7Flow_request_domain",
     "l7Flow_request_sip", "l7Flow_request_ua_device", "l7Flow_request_ua_browser"}

\* the keys the cdn adapter alone accepts
CdnOnlyKeys ==
    {"l7Flow_outcc", "l7Flow_cachedRequests", "function_requestCount",
     "function_cpuCostTime", "l7Flow_request_zym"}

\* the keys the esa adapter alone accepts
EsaOnlyKeys ==
    {"l7Flow_outFlux_province", "l7Flow_request_province",
     "l7Flow_outFlux_statusCode", "l7Flow_request_statusCode",
     "l7Flow_outFlux_url", "l7Flow_request_url", "l7Flow_outFlux_sip",
     "l7Flow_outFlux_referers", "l7Flow_request_referers",
     "l7Flow_outFlux_ua_os", "l7Flow_request_ua_os",
     "l7Flow_outFlux_ua", "l7Flow_request_ua",
     "l7Flow_outFlux_ua_device", "l7Flow_outFlux_ua_browser",
     "l7Flow_outFlux_urlquery", "l7Flow_url_res_query"}

\* the adapter rejected the metric before any upstream call
RejectedAsInvalid(r) ==
    /\ calls[r] = <<>>
    /\ Len(responses[r]) = 1 /\ responses[r][1].status = 400

\* C8 (amended): the registries overlap: the thirteen SharedKeys are accepted
\* by both adapters; a key is accepted by one adapter and rejected by the
\* other exactly when it is one of the five CdnOnlyKeys or the seventeen
\* EsaOnlyKeys.
C8_SharedAndOwnKeys ==
    /\ RegistryKeys("cdn") = SharedKeys \cup CdnOnlyKeys
    /\ RegistryKeys("esa") = SharedKeys \cup EsaOnlyKeys
    /\ \A r \in Reqs :
          Received(r) =>
              /\ query[r].metric \in SharedKeys => calls[r] # <<>>
              /\ query[r].metric \in CdnOnlyKeys =>
                     IF adapter[r] = "cdn" THEN calls[r] # <<>> ELSE RejectedAsInvalid(r)
              /\ query[r].metric \in EsaOnlyKeys =>
                     IF adapter[r] = "esa" THEN calls[r] # <<>> ELSE RejectedAsInvalid(r)

\* C8 witness: each adapter has accepted a key of the other's registry:
\* here the esa adapter a METRIC_MAP key
C8_SharedKeyAccepted ==
    \E r \in Reqs :
        /\ Received(r) /\ adapter[r] = "esa"
        /\ query[r].metric \in DOMAIN METRIC_MAP
        /\ calls[r] # <<>>

\* C9 as stated: an entry has a dimension iff it is a Distribution entry
\* (cdn: isDistribution, esa: type TOP).
C9_DimensionIffDistribution ==
    /\ \A k \in DOMAIN METRIC_MAP :
          Has(METRIC_MAP[k], "dimension") <=> Has(METRIC_MAP[k], "isDistribution")
    /\ \A k \in DOMAIN METRIC_CONFIG :
          Has(METRIC_CONFIG[k], "dimension")
          <=> (Has(METRIC_CONFIG[k], "type") /\ METRIC_CONFIG[k].type = "TOP")

\* C9 (amended): a cdn entry has a dimension iff it is isDistribution; every
\* esa entry has one after the default-fill: the catch-all "ALL" on the TS
\* entries, a grouping dimension other than "ALL" exactly on the TOP entries;
\* and that is what the esa adapter sends upstream.
C9_GroupingDimension ==
    /\ \A k \in DOMAIN METRIC_MAP :
          Has(METRIC_MAP[k], "dimension") <=> Has(METRIC_MAP[k], "isDistribution")
    /\ \A k \in DOMAIN METRIC_CONFIG :
          /\ Has(METRIC_CONFIG[k], "dimension") /\ Has(METRIC_CONFIG[k], "type")
          /\ METRIC_CONFIG[k].type \in {"TS", "TOP"}
          /\ METRIC_CONFIG[k].dimension # "ALL" <=> METRIC_CONFIG[k].type = "TOP"
    /\ \A r \in Reqs :
          (adapter[r] = "esa" /\ calls[r] # <<>> /\ query[r].metric \in DOMAIN METRIC_CONFIG)
          => (calls[r][1].params.Metric # "ALL"
              <=> calls[r][1].params.Action = "DescribeSiteTopData")

\* C9 witness: a time-series request of the esa adapter went upstream with
\* the dimension "ALL"
C9_SeriesSentWithAll ==
    \E r \in Reqs :
        /\ adapter[r] = "esa" /\ calls[r] # <<>>
        /\ METRIC_CONFIG[query[r].metric].type = "TS"
        /\ calls[r][1].params.Metric = "ALL"
        /\ calls[r][1].params.Fields.Dimension = <<"ALL">>

\* s is a date and nothing else: YYYY-MM-DD
DateOnly(s) ==
    /\ Len(s) = 10
    /\ \A i \in {1, 2, 3, 4, 6, 7, 9, 10} : IsDigit(s[i])
    /\ s[5] = "-" /\ s[8] = "-"

\* the bounds getTimeConfig works on: the requested ones, or the defaults
StartOf(r) ==
    IF query[r].startTime = <<>> THEN toISOString(query[r].now - 86400000)
    ELSE query[r].startTime

EndOf(r) == IF query[r].endTime = <<>> THEN toISOString(query[r].now) ELSE query[r].endTime

\* more than three days lie between the parsed start and the clock
StartOlderThan3Days(r) ==
    /\ DateParse(StartOf(r)) # NaN
    /\ query[r].now - DateParse(StartOf(r)) > 259200000

DailyConfig(c) ==
    /\ c.datasetMode = "httpRequests1dGroups" /\ c.orderBy = "date_ASC"
    /\ c.dimensionKey = "date"
    /\ c.filterObj = [date_geq |-> c.queryFrom, date_leq |-> c.queryTo]

HourlyConfig(c) ==
    /\ c.datasetMode = "httpRequests1hGroups" /\ c.orderBy = "datetime_ASC"
    /\ c.dimensionKey = "datetime"
    /\ c.filterObj = [datetime_geq |-> c.queryFrom, datetime_leq |-> c.queryTo]

\* C10: isLongTerm is true exactly when now - parsed start > 3 days; then
\* both bounds are date-only strings and the daily dataset, sort key and
\* filter are chosen; otherwise both bounds keep their full precision and the
\* hourly ones are chosen; daily is never chosen when isLongTerm is false.
C10_TimeConfig ==
    \A r \in Reqs :
        timeCfg[r] # None =>
            LET c == timeCfg[r]
            IN  /\ c.isLongTerm <=> StartOlderThan3Days(r)
                /\ c.isLongTerm =>
                       /\ DateOnly(c.queryFrom) /\ c.queryFrom = SubSeq(StartOf(r), 1, 10)
                       /\ DateOnly(c.queryTo) /\ c.queryTo = SubSeq(EndOf(r), 1, 10)
                       /\ DailyConfig(c)
                /\ ~c.isLongTerm =>
                       /\ c.queryFrom = StartOf(r) /\ c.queryTo = EndOf(r)
                       /\ HourlyConfig(c)
                /\ c.datasetMode = "httpRequests1dGroups" => c.isLongTerm

\* C10 for the requests whose end bound is omitted or an ISO-8601 instant
C10_TimeConfigIsoEnd ==
    \A r \in Reqs :
        (timeCfg[r] # None /\ DateParse(EndOf(r)) # NaN) =>
            LET c == timeCfg[r]
            IN  /\ c.isLongTerm <=> StartOlderThan3Days(r)
                /\ c.isLongTerm =>
                       /\ DateOnly(c.queryFrom) /\ c.queryFrom = SubSeq(StartOf(r), 1, 10)
                       /\ DateOnly(c.queryTo) /\ c.queryTo = SubSeq(EndOf(r), 1, 10)
                       /\ DailyConfig(c)
                /\ ~c.isLongTerm =>
                       /\ c.queryFrom = StartOf(r) /\ c.queryTo = EndOf(r)
                       /\ HourlyConfig(c)
                /\ c.datasetMode = "httpRequests1dGroups" => c.isLongTerm

\* the window a request resolved: the bounds the handler works on and sends
\* upstream (cdn: getTimeConfig's start and end; esa: StartTime and EndTime)
WindowResolved(r) ==
    IF adapter[r] = "cdn" THEN timeCfg[r] # None
    ELSE adapter[r] = "esa" /\ calls[r] # <<>>

WindowStart(r) ==
    IF adapter[r] = "cdn" THEN timeCfg[r].start ELSE calls[r][1].params.StartTime

WindowEnd(r) ==
    IF adapter[r] = "cdn" THEN timeCfg[r].end ELSE calls[r][1].params.EndTime

\* both bounds are instants and the start lies before the end
WindowOrdered(r) ==
    /\ DateParse(WindowStart(r)) # NaN /\ DateParse(WindowEnd(r)) # NaN
    /\ DateParse(WindowStart(r)) < DateParse(WindowEnd(r))

\* an omitted bound got its default: end = now, start = now - 24h
OmittedDefaulted(r) ==
    /\ query[r].endTime = <<>> => DateParse(WindowEnd(r)) = query[r].now
    /\ query[r].startTime = <<>> => DateParse(WindowStart(r)) = query[r].now - 86400000

\* the request was not turned away: its first upstream call was issued
NotRejected(r) == calls[r] # <<>>

\* C11: for every combination of startTime and endTime (present, omitted or
\* malformed) the resolved window has start < end, an omitted bound is
\* defaulted, and a request that passed the other checks is never rejected
\* because of its bounds.
C11_WindowStartBeforeEnd ==
    \A r \in Reqs :
        /\ WindowResolved(r) => WindowOrdered(r) /\ OmittedDefaulted(r)
        /\ (Received(r) /\ Validated(r)) => NotRejected(r) /\ WindowResolved(r)

\* the part of C11 that holds: omitted bounds are defaulted, no request is
\* rejected because of its bounds, and the window is ordered when both bounds
\* are omitted
C11_DefaultsNeverRejected ==
    \A r \in Reqs :
        /\ WindowResolved(r) =>
              /\ OmittedDefaulted(r)
              /\ (query[r].startTime = <<>> /\ query[r].endTime = <<>>) => WindowOrdered(r)
        /\ (Received(r) /\ Validated(r)) => NotRejected(r) /\ WindowResolved(r)

\* the two function metrics: invocation count and CPU time
FunctionMetrics == {"function_requestCount", "function_cpuCostTime"}

\* the UTC calendar day of an epoch second, as days since the epoch
UtcDay(sec) == sec \div 86400

RECURSIVE DayTotal(_, _)
\* the total of the values of the points of UTC day d
DayTotal(points, d) ==
    IF points = <<>> THEN 0
    ELSE (IF UtcDay(Head(points)[1]) = d THEN Head(points)[2] ELSE 0)
         + DayTotal(Tail(points), d)

\* detail is the daily rollup of the points: one point per UTC day that has a
\* point, at the day's 00:00 UTC, valued the day's total, days ascending
RolledUpByDay(detail, points) ==
    /\ Len(detail) = Cardinality({UtcDay(points[i][1]) : i \in 1..Len(points)})
    /\ \A j \in 1..Len(detail) :
          /\ detail[j].Timestamp % 86400 = 0
          /\ \E i \in 1..Len(points) : UtcDay(points[i][1]) = UtcDay(detail[j].Timestamp)
          /\ detail[j].Value = DayTotal(points, UtcDay(detail[j].Timestamp))
    /\ StrictlyAscending(detail)

\* detail is the merged list and nothing else: one point per upstream second,
\* valued the second's total, seconds ascending
MergedUnchanged(detail, points) ==
    /\ Len(detail) = Cardinality({points[i][1] : i \in 1..Len(points)})
    /\ MergedPerSecond(detail, points)
    /\ StrictlyAscending(detail)

\* C12: the daily rollup is applied to Detail exactly when the metric is a
\* function metric and isLongTerm is true: then Detail has one point per UTC
\* day that had an hourly point, at 00:00 UTC of the day, valued the day's
\* total, days ascending; otherwise Detail is the merged list unchanged.
\* Function metrics are queried from the hour-grouped invocation dataset
\* whatever the window.
C12_DailyRollup ==
    \A r \in Reqs :
        /\ AccountSeriesResponse(r) =>
              IF query[r].metric \in FunctionMetrics /\ timeCfg[r].isLongTerm
              THEN RolledUpByDay(SeriesOf(r).Detail, UpstreamPoints(r))
              ELSE MergedUnchanged(SeriesOf(r).Detail, UpstreamPoints(r))
        /\ (adapter[r] = "cdn" /\ calls[r] # <<>> /\ query[r].metric \in FunctionMetrics) =>
              /\ calls[r][1].dataset = "workersInvocationsAdaptive"
              /\ calls[r][1].dimension = "datetimeHour"
              /\ calls[r][1].orderBy = "datetimeHour_ASC"

\* C12 witness: a long-term function-metric request whose two hourly rows,
\* 00:00 = 3 and 01:00 = 5 of 1970-01-05, came back as the one point of that
\* day, 00:00 UTC (345600) with value 8
C12_TwoHoursOneDay ==
    \E r \in Reqs :
        /\ AccountSeriesResponse(r)
        /\ query[r].metric = "function_cpuCostTime" /\ timeCfg[r].isLongTerm
        /\ calls[r][1].dataset = "workersInvocationsAdaptive"
        /\ UpstreamPoints(r) = <<<<345600, 3>>, <<349200, 5>>>>
        /\ SeriesOf(r).Detail = <<[Timestamp |-> 345600, Value |-> 8]>>

\* everything the handler of request r holds or has caused
SlotsOf(r) ==
    <<pc[r], adapter[r], query[r], timeCfg[r], zoneList[r], calls[r], upstream[r],
      responses[r]>>

\* what a request is given: the adapter it reaches, its query with the clock
\* and the credentials, and the payloads its upstream calls have ended in
GivenTo(r) == <<adapter[r], query[r], upstream[r]>>

\* two requests given the same have gone the same way: same position, same
\* calls, same responses, however their steps were interleaved
SameGivenSameWay ==
    \A r1, r2 \in DOMAIN pc : GivenTo(r1) = GivenTo(r2) => SlotsOf(r1) = SlotsOf(r2)

\* a step is the step of one request and touches that request's slots only
StepOfOneRequest ==
    \E r \in DOMAIN pc : \A q \in DOMAIN pc \ {r} : SlotsOf(q)' = SlotsOf(q)

\* C13: two requests in flight share no mutable state: whatever the
\* interleaving at their awaits, a request's calls and response depend on its
\* own inputs, clock and upstream payloads only, every step touches one
\* request's state only, and the registry stays what the load-time default-fill
\* made it.
C13_RequestsIndependent ==
    /\ [](SameGivenSameWay /\ METRIC_CONFIG = DefaultFill(METRIC_CONFIG_LITERAL))
    /\ [][StepOfOneRequest /\ METRIC_CONFIG' = METRIC_CONFIG]_vars

\* C13 witness: request 1 is at its second await (the zone listing has
\* returned) while request 2, given the same as an earlier stage of request 1,
\* has been answered: their steps were interleaved
C13_InterleavedAtAwaits ==
    /\ pc[1] = "zonequery" /\ Len(upstream[1]) = 1
    /\ pc[2] = "done" /\ adapter[2] = "cdn" /\ query[2] = query[1]
    /\ upstream[2] # upstream[1] /\ Len(upstream[2]) = 1
    /\ responses[1] = <<>> /\ Len(responses[2]) = 1

\* the request's parameter object has been signed and sent
Signed(r) == adapter[r] = "esa" /\ calls[r] # <<>> /\ Has(calls[r][1], "stringToSign")

KeysOf(params) == {params[i].key : i \in 1..Len(params)}

\* the parameter object as a mapping, whatever the order of insertion
AsMap(params) == [k \in KeysOf(params) |-> ValueOf(params, k)]

SignatureOf(r) == ValueOf(calls[r][1].params, SignatureKey)

\* a comes before b in lexicographic order of the character codes
LexBefore(a, b) ==
    \E i \in 1..Len(b) :
        /\ \A j \in 1..(i - 1) : j <= Len(a) /\ a[j] = b[j]
        /\ i = Len(a) + 1 \/ (i <= Len(a) /\ CharCode(a[i]) < CharCode(b[i]))

\* the keys of the object, each before the next
AscendingKeys(params) ==
    CHOOSE ks \in [1..Len(params) -> KeysOf(params)] :
        \A i \in 1..(Len(params) - 1) : LexBefore(ks[i], ks[i + 1])

\* the keys on which two mappings of the same keys differ
DifferAt(m1, m2) == {k \in DOMAIN m1 : m1[k] # m2[k]}

\* the number of & in a string
Ampersands(str) == Cardinality({i \in 1..Len(str) : str[i] = "&"})

\* C14: signing is deterministic: the same parameter map signed twice with
\* the same secret gives the same signature; the canonical query string lists
\* the parameters in lexicographic key order whatever the order of insertion;
\* changing the value of one parameter changes the signature; and the
\* signature covers every parameter that is sent except Signature itself.
C14_SigningDeterministic ==
    /\ \A r \in DOMAIN pc :
          Signed(r) =>
              LET c == calls[r][1]
                  p == query[r].params
                  ks == AscendingKeys(p)
              IN  /\ c.canonicalizedQuery =
                         join([i \in 1..Len(ks) |->
                                  percentEncode(ks[i]) \o <<"=">>
                                  \o percentEncode(AsMap(p)[ks[i]])],
                              <<"&">>)
                  /\ c.stringToSign =
                         <<"G", "E", "T", "&", "%", "2", "F", "&">>
                         \o percentEncode(c.canonicalizedQuery)
                  /\ KeysOf(c.params) = KeysOf(p) \cup {SignatureKey}
                  /\ Len(c.params) = Len(p) + 1
                  /\ \A k \in KeysOf(p) : ValueOf(c.params, k) = AsMap(p)[k]
                  /\ Len(SignatureOf(r)) = 28
                  /\ Ampersands(c.search) = Len(c.params) - 1
    /\ \A r1, r2 \in DOMAIN pc :
          (Signed(r1) /\ Signed(r2) /\ query[r1].secretKey = query[r2].secretKey) =>
              LET m1 == AsMap(query[r1].params)
                  m2 == AsMap(query[r2].params)
              IN  /\ m1 = m2 =>
                         /\ SignatureOf(r1) = SignatureOf(r2)
                         /\ calls[r1][1].canonicalizedQuery = calls[r2][1].canonicalizedQuery
                  /\ (DOMAIN m1 = DOMAIN m2 /\ Cardinality(DifferAt(m1, m2)) = 1) =>
                         SignatureOf(r1) # SignatureOf(r2)

\* C14 witness: the same entries, with a value that needs every substitution
\* of percentEncode, were inserted in opposite orders by two requests and
\* signed with the same secret: one canonical string, one signature
C14_TwoOrdersOneSignature ==
    /\ Signed(1) /\ Signed(2)
    /\ query[1].secretKey = query[2].secretKey
    /\ query[1].params # query[2].params
    /\ AsMap(query[1].params) = AsMap(query[2].params)
    /\ AsMap(query[1].params)[K_Metric] = <<"a", "+", "b", " ", "*", "~">>
    /\ SignatureOf(1) = SignatureOf(2)

====
